---- MODULE Spec2Model ----
(***************************************************************************)
(* Wirehair: a systematic rateless erasure code over GF(2).                *)
(* Model of src/codec_source/Wirehair.cpp (cat::wirehair::Codec).          *)
(*                                                                         *)
(* Block data is symbolic: one byte of a block is the set of message bytes *)
(* whose XOR it holds, so XOR is symmetric difference and a statement      *)
(* about the output covers every message of the given length.  A message   *)
(* byte is named by its offset k >= 0; the byte at offset j of memory that *)
(* was never written is named by a negative number.                        *)
(***************************************************************************)
EXTENDS Integers, Sequences, FiniteSets, TLC

\* ---------------------------------------------------------------- bounds
\* Bytes per block (M).
BlockBytes == 2
\* CAT_MAX_EXTRA_ROWS: spare row slots of the decoder (scaled down).
MaxExtraRows == 1
\* CAT_REF_LIST_MAX: rows a column can reference (scaled down).
RefListMax == 4
\* Largest row id the encoder is asked for.
MaxId == 7
\* Number of DecodeFeed calls explored.
MaxFeeds == 7
\* Largest row id the sender repeats when it feeds without end.
RepeatId == 4

\* ---------------------------------------------------------------- constants
LIST_TERM == 65535
MARK_TODO == 0
MARK_PEEL == 1
MARK_DEFER == 2

\* Result codes (Wirehair.hpp, named in GetResultString).
R_WIN == "R_WIN"
R_MORE_BLOCKS == "R_MORE_BLOCKS"
R_BAD_INPUT == "R_BAD_INPUT"
R_OUT_OF_MEMORY == "R_OUT_OF_MEMORY"
\* No call has returned yet.
R_NONE == "R_NONE"

\* ---------------------------------------------------------------- helpers
\* A value read from memory that was never written.
UNINIT == 0 - 1

Min(a, b) == IF a < b THEN a ELSE b

\* XOR of two bit sets.
SetXor(a, b) == {x : x \in (a \ b) \cup (b \ a)}

\* A block is a function 0..block_bytes-1 -> set of symbols.
ZeroBlock(bytes) == [j \in 0..(bytes - 1) |-> {}]

\* memxor(dest, src, bytes)
memxor(dest, src) == [j \in DOMAIN dest |-> SetXor(dest[j], src[j])]

\* Byte k of a 32-bit word.
Byte(rv, k) == (rv \div (IF k = 0 THEN 1 ELSE IF k = 1 THEN 256 ELSE IF k = 2 THEN 65536 ELSE 16777216)) % 256

\* (u16)rv and (u16)(rv >> 16)
Lo16(rv) == rv % 65536
Hi16(rv) == rv \div 65536

\* ---------------------------------------------------------------- 4.A PRNG
\* CatsChoice lives in a header outside src/; the specification only says
\* it is a small seedable generator of a 32-bit stream fully determined by
\* its seed.  It is modelled as a 16-bit linear congruential generator
\* whose outputs are below 2^31.
CatsChoiceStep(s) == (s * 75 + 74) % 65537
CatsChoiceInitialize(x, y) == ((x % 251) * 257 + (y % 251) * 263 + 229) % 65537
CatsChoiceValue(s) ==
    (CatsChoiceStep(s) % 32768) * 65536 + (CatsChoiceStep(CatsChoiceStep(s)) % 65536)
CatsChoiceAdvance(s) == CatsChoiceStep(CatsChoiceStep(s))

IsPrime(n) == n >= 2 /\ \A d \in 2..(n - 1) : n % d # 0

NextPrime16(n) ==
    CASE n \in {0, 1} -> 1
      [] n = 2 -> 2
      [] n = 3 -> 3
      [] n \in {4, 5} -> 5
      [] n \in {6, 7} -> 7
      [] OTHER -> CHOOSE p \in n..(2 * n) : IsPrime(p) /\ \A q \in n..(p - 1) : ~IsPrime(q)

WEIGHT_DIST ==
    << 0, 5243, 529531, 704294, 791675, 844104, 879057, 904023,
       922747, 937311, 948962, 958494, 966438, 973160, 978921,
       983914, 988283, 992138, 995565, 998631, 1001391, 1003887,
       1006157, 1008229, 1010129, 1011876, 1013490, 1014983,
       1016370, 1017662, 1048576 >>

GeneratePeelRowWeight(rv, max_weight) ==
    LET r20 == rv % 1048576
        ii == CHOOSE i \in 1..30 : r20 < WEIGHT_DIST[i + 1]
                                   /\ \A k \in 1..(i - 1) : r20 >= WEIGHT_DIST[k + 1]
    IN  IF ii > max_weight THEN max_weight ELSE ii

\* Column iterator, as the specification words it:
\*   x <- x + a; if x >= m then x <- x - m;
\*   if x >= m then x <- (x + a) mod p; if x >= m repeat.
RECURSIVE IterateRepeat(_, _, _, _)
IterateRepeat(x, m, p, a) ==
    IF x >= m THEN IterateRepeat((x + a) % p, m, p, a) ELSE x

IterateNextColumn(x, m, p, a) ==
    LET x1 == x + a
        x2 == IF x1 >= m THEN x1 - m ELSE x1
    IN  IterateRepeat(x2, m, p, a)

DeckStep_NoSwap(deck, ii, v) == [deck EXCEPT ![ii] = deck[v % ii]]

\* One Fisher-Yates step: jj = v % ii; deck[ii] = deck[jj]; deck[jj] = ii.
DeckStep(deck, ii, v) == [deck EXCEPT ![ii] = deck[v % ii], ![v % ii] = ii]

\* One round of the loop of ShuffleDeck16 on the word rv: up to unroll
\* entries are placed (4 bytes or 2 halves); done is the return.
ShuffleDeckRound(deck, ii, count, rv) ==
    LET left == count - ii
    IN  IF count <= 256
          THEN CASE left = 0 -> [deck |-> deck, ii |-> ii, done |-> TRUE]
                 [] left = 1 -> [deck |-> DeckStep(deck, ii, Byte(rv, 2)),
                                 ii |-> ii, done |-> TRUE]
                 [] left = 2 -> [deck |-> DeckStep(DeckStep(deck, ii, Byte(rv, 1)),
                                                   ii + 1, Byte(rv, 2)),
                                 ii |-> ii + 1, done |-> TRUE]
                 [] left = 3 -> [deck |-> DeckStep(DeckStep(DeckStep(deck, ii, Byte(rv, 0)),
                                                            ii + 1, Byte(rv, 1)),
                                                   ii + 2, Byte(rv, 2)),
                                 ii |-> ii + 2, done |-> TRUE]
                 [] OTHER -> [deck |-> DeckStep(DeckStep(DeckStep(DeckStep(
                                                    deck, ii, Byte(rv, 0)),
                                                    ii + 1, Byte(rv, 1)),
                                                    ii + 2, Byte(rv, 2)),
                                                    ii + 3, Byte(rv, 3)),
                              ii |-> ii + 4, done |-> FALSE]
          ELSE CASE left = 0 -> [deck |-> deck, ii |-> ii, done |-> TRUE]
                 [] left = 1 -> [deck |-> DeckStep(deck, ii, Lo16(rv)),
                                 ii |-> ii, done |-> TRUE]
                 [] OTHER -> [deck |-> DeckStep(DeckStep(deck, ii, Lo16(rv)),
                                                ii + 1, Hi16(rv)),
                              ii |-> ii + 2, done |-> FALSE]

\* The loop of ShuffleDeck16; s is the generator state, and each round
\* draws one word.
RECURSIVE ShuffleDeckLoop(_, _, _, _)
ShuffleDeckAfter(r, count, s1) ==
    IF r.done THEN [deck |-> r.deck, s |-> s1]
    ELSE ShuffleDeckLoop(r.deck, r.ii, count, s1)

ShuffleDeckLoop(deck, ii, count, s) ==
    ShuffleDeckAfter(ShuffleDeckRound(deck, ii, count, CatsChoiceValue(s)), count,
                     CatsChoiceAdvance(s))

ShuffleDeck16(s, count) ==
    ShuffleDeckLoop([k \in 0..(count - 1) |-> IF k = 0 THEN 0 ELSE UNINIT], 1, count, s)

GeneratePeelRow(id, p_seed, peel_column_count, mix_column_count) ==
    LET s0 == CatsChoiceInitialize(id, p_seed)
        rv1 == CatsChoiceValue(s0)
        s1 == CatsChoiceAdvance(s0)
        rv2 == CatsChoiceValue(s1)
        s2 == CatsChoiceAdvance(s1)
        rv3 == CatsChoiceValue(s2)
    IN  [ peel_weight |-> GeneratePeelRowWeight(rv1, peel_column_count - 1),
          peel_a |-> (Lo16(rv2) % (peel_column_count - 1)) + 1,
          peel_x0 |-> Hi16(rv2) % peel_column_count,
          mix_a |-> (Lo16(rv3) % (mix_column_count - 1)) + 1,
          mix_x0 |-> Hi16(rv3) % mix_column_count ]

\* The parameter table.  The entry for 5 blocks is a scaled-down stand-in
\* for a tabulated size; the other entries are the table of the source.
GenerateMatrixParameters(block_count) ==
    CASE block_count = 5 -> [ok |-> TRUE, light_count |-> 2, dense_count |-> 2]
      [] block_count = 16 -> [ok |-> TRUE, light_count |-> 6, dense_count |-> 2]
      [] block_count = 64 -> [ok |-> TRUE, light_count |-> 8, dense_count |-> 2]
      [] block_count = 128 -> [ok |-> TRUE, light_count |-> 11, dense_count |-> 2]
      [] block_count = 256 -> [ok |-> TRUE, light_count |-> 14, dense_count |-> 5]
      [] block_count = 512 -> [ok |-> TRUE, light_count |-> 14, dense_count |-> 5]
      [] block_count = 1024 -> [ok |-> TRUE, light_count |-> 18, dense_count |-> 12]
      [] block_count = 2048 -> [ok |-> TRUE, light_count |-> 45, dense_count |-> 8]
      [] block_count = 4096 -> [ok |-> TRUE, light_count |-> 55, dense_count |-> 14]
      [] block_count = 8192 -> [ok |-> TRUE, light_count |-> 100, dense_count |-> 16]
      [] block_count = 10000 -> [ok |-> TRUE, light_count |-> 120, dense_count |-> 20]
      [] block_count = 16384 -> [ok |-> TRUE, light_count |-> 180, dense_count |-> 26]
      [] block_count = 32768 -> [ok |-> TRUE, light_count |-> 400, dense_count |-> 30]
      [] block_count = 40000 -> [ok |-> TRUE, light_count |-> 460, dense_count |-> 29]
      [] block_count = 50000 -> [ok |-> TRUE, light_count |-> 600, dense_count |-> 34]
      [] block_count = 64000 -> [ok |-> TRUE, light_count |-> 6, dense_count |-> 750]
      [] OTHER -> [ok |-> FALSE, light_count |-> 0, dense_count |-> 0]

\* ---------------------------------------------------------------- codec state
\* The symbol of byte idx of a memory region that was never written
\* (0: recovery blocks, 1: decoder input blocks, 2: past the end of the
\* caller's message).
Garbage(region, idx) == 0 - (1 + region * 1000 + idx)

\* PeelRow: unmarked[0] shares storage with peel_column, and the low byte
\* of unmarked[1] with is_copied.
FreshPeelRow ==
    [ next |-> UNINIT, id |-> UNINIT, peel_weight |-> UNINIT, peel_a |-> UNINIT,
      peel_x0 |-> UNINIT, mix_a |-> UNINIT, mix_x0 |-> UNINIT,
      unmarked_count |-> UNINIT, unmarked |-> [k \in 0..1 |-> UNINIT] ]

\* PeelColumn: w2_refs shares storage with peel_row and ge_column.
FreshPeelColumn == [ next |-> UNINIT, w2_refs |-> 0, mark |-> MARK_TODO ]

\* Codec::Codec(): only the buffer pointers are cleared.
NewCodec ==
    [ block_bytes |-> UNINIT, block_count |-> UNINIT, block_next_prime |-> UNINIT,
      p_seed |-> UNINIT, c_seed |-> UNINIT,
      light_count |-> UNINIT, dense_count |-> UNINIT, light_next_prime |-> UNINIT,
      added_count |-> UNINIT, added_next_prime |-> UNINIT,
      input_final_bytes |-> UNINIT, output_final_bytes |-> UNINIT,
      extra_count |-> UNINIT, used_count |-> UNINIT,
      peel_head_rows |-> UNINIT, peel_tail_rows |-> UNINIT, defer_head_rows |-> UNINIT,
      defer_head_columns |-> UNINIT, defer_count |-> UNINIT,
      ge_rows |-> UNINIT, ge_resume_pivot |-> UNINIT,
      has_workspace |-> FALSE, has_matrix |-> FALSE, has_input |-> FALSE,
      recovery_blocks |-> << >>, peel_rows |-> << >>, peel_cols |-> << >>,
      peel_col_refs |-> << >>,
      ge_matrix |-> << >>, ge_compress_matrix |-> << >>,
      ge_pivots |-> << >>, ge_row_map |-> << >>, ge_col_map |-> << >>,
      input_blocks |-> << >>,
      \* set when the code has executed an operation with undefined behaviour
      undefined |-> FALSE,
      \* bookkeeping for the properties: SolveMatrix runs, the path the last
      \* DecodeFeed took, whether a DecodeFeed has returned Ok, and whether
      \* the row resumed from last was independent of the pivots found,
      \* whether PeelAvalanche has deferred a row on its memoized columns
      \* when its count fell to 1, whether such a row covered a Todo column,
      \* and the ids of the rows stored so far
      solve_runs |-> 0, path |-> "none", won |-> FALSE, independent |-> FALSE,
      deferred_at_one |-> FALSE, deferred_todo |-> FALSE, fed |-> << >> ]

\* ChooseMatrix that does not look at what GenerateMatrixParameters returned.
ChooseMatrix_Unchecked(c, message_bytes, block_bytes, p_seed, c_seed) ==
    LET block_count == (message_bytes + block_bytes - 1) \div block_bytes
        gmp == GenerateMatrixParameters(block_count)
    IN  [r |-> R_WIN,
         c |-> [c EXCEPT !.block_bytes = block_bytes,
                         !.block_count = block_count,
                         !.block_next_prime = NextPrime16(block_count),
                         !.p_seed = p_seed, !.c_seed = c_seed,
                         !.light_count = gmp.light_count,
                         !.dense_count = gmp.dense_count,
                         !.added_count = gmp.light_count + gmp.dense_count,
                         !.peel_head_rows = LIST_TERM,
                         !.peel_tail_rows = LIST_TERM,
                         !.defer_head_rows = LIST_TERM]]

\* _peel_tail_rows is a pointer; the null pointer is written LIST_TERM here.
ChooseMatrix(c, message_bytes, block_bytes, p_seed, c_seed) ==
    LET block_count == (message_bytes + block_bytes - 1) \div block_bytes
        gmp == GenerateMatrixParameters(block_count)
        c1 == [c EXCEPT !.block_bytes = block_bytes,
                        !.block_count = block_count,
                        !.block_next_prime = NextPrime16(block_count),
                        !.p_seed = p_seed, !.c_seed = c_seed]
    IN  IF ~gmp.ok
          THEN [r |-> R_BAD_INPUT, c |-> c1]
          ELSE [r |-> R_WIN,
                c |-> [c1 EXCEPT !.light_count = gmp.light_count,
                                 !.dense_count = gmp.dense_count,
                                 !.light_next_prime = NextPrime16(gmp.light_count),
                                 !.added_count = gmp.light_count + gmp.dense_count,
                                 !.added_next_prime =
                                     NextPrime16(gmp.light_count + gmp.dense_count),
                                 !.peel_head_rows = LIST_TERM,
                                 !.peel_tail_rows = LIST_TERM,
                                 !.defer_head_rows = LIST_TERM]]

\* new[] may fail: mem says whether the allocations of this call succeed.
AllocateWorkspace(c, mem) ==
    IF ~mem THEN c
    ELSE [c EXCEPT !.has_workspace = TRUE,
             !.recovery_blocks =
                 [i \in 0..(c.block_count + c.added_count) |->
                      [j \in 0..(c.block_bytes - 1) |-> {Garbage(0, i * c.block_bytes + j)}]],
             !.peel_rows = [i \in 0..(c.block_count + c.extra_count - 1) |-> FreshPeelRow],
             !.peel_cols = [i \in 0..(c.block_count - 1) |-> FreshPeelColumn],
             !.peel_col_refs = [i \in 0..(c.block_count - 1) |-> << >>]]

AllocateInput(c, mem) ==
    IF ~mem THEN c
    ELSE [c EXCEPT !.has_input = TRUE,
             !.input_blocks =
                 [i \in 0..(c.block_count + c.extra_count - 1) |->
                      [j \in 0..(c.block_bytes - 1) |-> {Garbage(1, i * c.block_bytes + j)}]]]

\* ---------------------------------------------------------------- 4.C peeling
\* The columns a row covers, in the order the code visits them.
RECURSIVE RowColumnsFrom(_, _, _, _, _)
RowColumnsFrom(weight, a, x, m, p) ==
    IF weight <= 1 THEN << x >>
    ELSE << x >> \o RowColumnsFrom(weight - 1, a, IterateNextColumn(x, m, p, a), m, p)

PeelColumnsOf(c, row) ==
    RowColumnsFrom(row.peel_weight, row.peel_a, row.peel_x0, c.block_count, c.block_next_prime)

\* The three mix columns of a row.
MixColumnsOf(c, row) ==
    RowColumnsFrom(3, row.mix_a, row.mix_x0, c.added_count, c.added_next_prime)

\* row->is_copied is the low byte of unmarked[1]
IsCopied(row) == row.unmarked[1] % 256
SetIsCopied(row, v) ==
    [row EXCEPT !.unmarked[1] = (row.unmarked[1] \div 256) * 256 + v]

\* The number of Todo columns the row in slot row_i covers.
TodoCount(c, row_i) ==
    Cardinality({k \in 1..c.peel_rows[row_i].peel_weight :
                     c.peel_cols[PeelColumnsOf(c, c.peel_rows[row_i])[k]].mark = MARK_TODO})

\* A deferral that makes the row the head of the list without linking the
\* list behind it.
DeferRow_Unlinked(c, row_i) ==
    [c EXCEPT !.peel_rows[row_i].next = LIST_TERM,
              !.defer_head_rows = row_i]

\* Link a row at the head of the deferred-rows list.
DeferRow(c, row_i) ==
    [c EXCEPT !.peel_rows[row_i].next = c.defer_head_rows,
              !.defer_head_rows = row_i]

RECURSIVE Peel(_, _, _)
RECURSIVE PeelAvalancheFrom(_, _, _, _)

\* The re-scan of a row whose count dropped to 2: k walks its columns.
RECURSIVE AvalancheRescan(_, _, _, _, _)
AvalancheRescan(c, ref_row_i, cols, k, unmarked_count) ==
    IF k > Len(cols) THEN [c |-> c, unmarked_count |-> unmarked_count]
    ELSE IF c.peel_cols[cols[k]].mark = MARK_TODO
      THEN IF unmarked_count >= 2
             \* ref_row->unmarked[2] is outside the array
             THEN [c |-> [c EXCEPT !.undefined = TRUE], unmarked_count |-> unmarked_count]
             ELSE AvalancheRescan(
                    [c EXCEPT !.peel_rows[ref_row_i].unmarked[unmarked_count] = cols[k],
                              !.peel_cols[cols[k]].w2_refs = @ + 1],
                    ref_row_i, cols, k + 1, unmarked_count + 1)
      ELSE AvalancheRescan(c, ref_row_i, cols, k + 1, unmarked_count)

\* An iteration that acts on the decremented count without storing it.
AvalancheStep_CountKept(c, column_i, ref_row_i) ==
    LET count == (c.peel_rows[ref_row_i].unmarked_count + 65535) % 65536
        c1 == c
        ref_row == c1.peel_rows[ref_row_i]
    IN  IF c.peel_rows[ref_row_i].unmarked_count = UNINIT
          THEN [c EXCEPT !.undefined = TRUE]
        ELSE IF count = 1
          THEN LET new_column_i == IF ref_row.unmarked[0] = column_i
                                     THEN ref_row.unmarked[1] ELSE ref_row.unmarked[0]
               IN  IF new_column_i \notin DOMAIN c1.peel_cols
                     THEN [c1 EXCEPT !.undefined = TRUE]
                   ELSE IF c1.peel_cols[new_column_i].mark = MARK_TODO
                     THEN Peel(c1, ref_row_i, new_column_i)
                   ELSE DeferRow([c1 EXCEPT !.deferred_at_one = TRUE,
                                            !.deferred_todo =
                                                @ \/ TodoCount(c1, ref_row_i) > 0],
                                 ref_row_i)
        ELSE IF count = 2
          THEN LET rs == AvalancheRescan(c1, ref_row_i, PeelColumnsOf(c1, ref_row), 1, 0)
               IN  IF rs.c.undefined THEN rs.c
                   ELSE IF rs.unmarked_count <= 1
                     THEN LET c2 == [rs.c EXCEPT !.peel_rows[ref_row_i].unmarked_count = 0]
                          IN  IF rs.unmarked_count = 1
                                THEN Peel(c2, ref_row_i, c2.peel_rows[ref_row_i].unmarked[0])
                                ELSE DeferRow(c2, ref_row_i)
                   ELSE rs.c
        ELSE c1

\* An iteration that takes unmarked[0] for the other column whatever
\* column was just solved.
AvalancheStep_MemoFirst(c, column_i, ref_row_i) ==
    LET count == (c.peel_rows[ref_row_i].unmarked_count + 65535) % 65536
        c1 == [c EXCEPT !.peel_rows[ref_row_i].unmarked_count = count]
        ref_row == c1.peel_rows[ref_row_i]
    IN  IF c.peel_rows[ref_row_i].unmarked_count = UNINIT
          THEN [c EXCEPT !.undefined = TRUE]
        ELSE IF count = 1
          THEN LET new_column_i == ref_row.unmarked[0]
               IN  IF new_column_i \notin DOMAIN c1.peel_cols
                     THEN [c1 EXCEPT !.undefined = TRUE]
                   ELSE IF c1.peel_cols[new_column_i].mark = MARK_TODO
                     THEN Peel(c1, ref_row_i, new_column_i)
                   ELSE DeferRow([c1 EXCEPT !.deferred_at_one = TRUE,
                                            !.deferred_todo =
                                                @ \/ TodoCount(c1, ref_row_i) > 0],
                                 ref_row_i)
        ELSE IF count = 2
          THEN LET rs == AvalancheRescan(c1, ref_row_i, PeelColumnsOf(c1, ref_row), 1, 0)
               IN  IF rs.c.undefined THEN rs.c
                   ELSE IF rs.unmarked_count <= 1
                     THEN LET c2 == [rs.c EXCEPT !.peel_rows[ref_row_i].unmarked_count = 0]
                          IN  IF rs.unmarked_count = 1
                                THEN Peel(c2, ref_row_i, c2.peel_rows[ref_row_i].unmarked[0])
                                ELSE DeferRow(c2, ref_row_i)
                   ELSE rs.c
        ELSE c1

\* One iteration of the loop of PeelAvalanche, for the reference ref_row_i.
AvalancheStep(c, column_i, ref_row_i) ==
    LET count == (c.peel_rows[ref_row_i].unmarked_count + 65535) % 65536
        c1 == [c EXCEPT !.peel_rows[ref_row_i].unmarked_count = count]
        ref_row == c1.peel_rows[ref_row_i]
    IN  IF c.peel_rows[ref_row_i].unmarked_count = UNINIT
          THEN [c EXCEPT !.undefined = TRUE]
        ELSE IF count = 1
          THEN LET new_column_i == IF ref_row.unmarked[0] = column_i
                                     THEN ref_row.unmarked[1] ELSE ref_row.unmarked[0]
               IN  IF new_column_i \notin DOMAIN c1.peel_cols
                     THEN [c1 EXCEPT !.undefined = TRUE]
                   ELSE IF c1.peel_cols[new_column_i].mark = MARK_TODO
                     THEN Peel(c1, ref_row_i, new_column_i)
                   ELSE DeferRow([c1 EXCEPT !.deferred_at_one = TRUE,
                                            !.deferred_todo =
                                                @ \/ TodoCount(c1, ref_row_i) > 0],
                                 ref_row_i)
        ELSE IF count = 2
          THEN LET rs == AvalancheRescan(c1, ref_row_i, PeelColumnsOf(c1, ref_row), 1, 0)
               IN  IF rs.c.undefined THEN rs.c
                   ELSE IF rs.unmarked_count <= 1
                     THEN LET c2 == [rs.c EXCEPT !.peel_rows[ref_row_i].unmarked_count = 0]
                          IN  IF rs.unmarked_count = 1
                                THEN Peel(c2, ref_row_i, c2.peel_rows[ref_row_i].unmarked[0])
                                ELSE DeferRow(c2, ref_row_i)
                   ELSE rs.c
        ELSE c1

PeelAvalancheFrom(c, column_i, ref_rows, k) ==
    IF c.undefined \/ k > Len(ref_rows) THEN c
    ELSE PeelAvalancheFrom(AvalancheStep(c, column_i, ref_rows[k]), column_i, ref_rows, k + 1)

PeelAvalanche(c, column_i) ==
    PeelAvalancheFrom(c, column_i, c.peel_col_refs[column_i], 1)

Peel(c, row_i, column_i) ==
    LET c1 == [c EXCEPT !.peel_cols[column_i].mark = MARK_PEEL,
                        !.peel_rows[row_i].unmarked[0] = column_i]
        c2 == IF c1.peel_tail_rows # LIST_TERM
                THEN [c1 EXCEPT !.peel_rows[c1.peel_tail_rows].next = row_i]
                ELSE [c1 EXCEPT !.peel_head_rows = row_i]
        c3 == [c2 EXCEPT !.peel_rows[row_i] = SetIsCopied([@ EXCEPT !.next = LIST_TERM], 0),
                         !.peel_tail_rows = row_i]
        c4 == PeelAvalanche(c3, column_i)
    IN  [c4 EXCEPT !.peel_cols[column_i].w2_refs = row_i]

\* The loop of OpportunisticPeeling over the columns of the row: unmarked
\* is the local two-entry array.  ok = FALSE: the reference list was full.
RECURSIVE OpportunisticScan(_, _, _, _, _, _)
OpportunisticScan(c, row_i, cols, k, unmarked_count, unmarked) ==
    IF k > Len(cols)
      THEN [ok |-> TRUE, c |-> c, unmarked_count |-> unmarked_count, unmarked |-> unmarked]
    ELSE IF Len(c.peel_col_refs[cols[k]]) >= RefListMax
      THEN [ok |-> FALSE, c |-> c, unmarked_count |-> unmarked_count, unmarked |-> unmarked]
    ELSE LET c1 == [c EXCEPT !.peel_col_refs[cols[k]] = Append(@, row_i)]
         IN  IF c.peel_cols[cols[k]].mark = MARK_TODO
               THEN OpportunisticScan(c1, row_i, cols, k + 1, unmarked_count + 1,
                                      [unmarked EXCEPT ![unmarked_count % 2] = cols[k]])
               ELSE OpportunisticScan(c1, row_i, cols, k + 1, unmarked_count, unmarked)

OpportunisticPeeling(c, row_i, id) ==
    LET shape == GeneratePeelRow(id, c.p_seed, c.block_count, c.added_count)
        c1 == [c EXCEPT !.peel_rows[row_i] =
                   [@ EXCEPT !.id = id, !.peel_weight = shape.peel_weight,
                             !.peel_a = shape.peel_a, !.peel_x0 = shape.peel_x0,
                             !.mix_a = shape.mix_a, !.mix_x0 = shape.mix_x0]]
        sc == OpportunisticScan(c1, row_i, PeelColumnsOf(c1, c1.peel_rows[row_i]), 1, 0,
                                [k \in 0..1 |-> UNINIT])
        c2 == [sc.c EXCEPT !.peel_rows[row_i].unmarked_count = sc.unmarked_count]
    IN  IF ~sc.ok THEN [ok |-> FALSE, c |-> sc.c]
        ELSE [ok |-> TRUE,
              c |-> CASE sc.unmarked_count = 0 -> DeferRow(c2, row_i)
                      [] sc.unmarked_count = 1 -> Peel(c2, row_i, sc.unmarked[0])
                      [] sc.unmarked_count = 2 ->
                           [c2 EXCEPT !.peel_rows[row_i].unmarked = sc.unmarked,
                                      !.peel_cols[sc.unmarked[0]].w2_refs = @ + 1,
                                      !.peel_cols[sc.unmarked[1]].w2_refs = @ + 1]
                      [] OTHER -> c2]

\* The scan of GreedyPeeling for the column to defer; best is
\* <<best_column_i, best_w2_refs, best_row_count>>.
RECURSIVE GreedyBest(_, _, _)
GreedyBest(c, column_i, best) ==
    IF column_i >= c.block_count THEN best
    ELSE LET w2_refs == c.peel_cols[column_i].w2_refs
             row_count == Len(c.peel_col_refs[column_i])
         IN  IF /\ c.peel_cols[column_i].mark = MARK_TODO
                /\ w2_refs >= best[2]
                /\ (w2_refs > best[2] \/ row_count >= best[3])
               THEN GreedyBest(c, column_i + 1, << column_i, w2_refs, row_count >>)
               ELSE GreedyBest(c, column_i + 1, best)

RECURSIVE GreedyLoop(_)
GreedyLoop(c) ==
    LET best_column_i == GreedyBest(c, 0, << LIST_TERM, 0, 0 >>)[1]
    IN  IF c.undefined \/ best_column_i = LIST_TERM THEN c
        ELSE GreedyLoop(PeelAvalanche(
                 [c EXCEPT !.peel_cols[best_column_i].mark = MARK_DEFER,
                           !.peel_cols[best_column_i].next = c.defer_head_columns,
                           !.defer_count = @ + 1,
                           !.defer_head_columns = best_column_i],
                 best_column_i))

GreedyPeeling(c) ==
    GreedyLoop([c EXCEPT !.defer_head_columns = LIST_TERM, !.defer_count = 0])

\* ---------------------------------------------------------------- 4.D/4.E compression
\* The rows of a linked list from head, following next.  A walk that leaves
\* the row array or does not end within the number of slots is a walk the
\* code does not finish: ok = FALSE.
RECURSIVE RowListFrom(_, _, _)
RowListFrom(c, row_i, fuel) ==
    IF row_i = LIST_TERM THEN [ok |-> TRUE, rows |-> << >>]
    ELSE IF fuel = 0 \/ row_i \notin DOMAIN c.peel_rows THEN [ok |-> FALSE, rows |-> << >>]
    ELSE LET rest == RowListFrom(c, c.peel_rows[row_i].next, fuel - 1)
         IN  [ok |-> rest.ok, rows |-> << row_i >> \o rest.rows]

RowList(c, head) == RowListFrom(c, head, c.block_count + c.extra_count)

\* The deferred columns from _defer_head_columns, following next.
RECURSIVE ColumnListFrom(_, _)
ColumnListFrom(c, column_i) ==
    IF column_i = LIST_TERM THEN << >>
    ELSE << column_i >> \o ColumnListFrom(c, c.peel_cols[column_i].next)

\* One GE matrix row is the set of its set bits.
AllocateMatrix(c, mem) ==
    LET ge_cols == c.defer_count + c.added_count
        pivot_count == ge_cols + c.extra_count
    IN  IF ~mem THEN c
        ELSE [c EXCEPT !.has_matrix = TRUE,
                       !.ge_rows = ge_cols,
                       !.ge_matrix = [i \in 0..(ge_cols + c.extra_count) |->
                                         IF i < ge_cols THEN {} ELSE {UNINIT}],
                       !.ge_compress_matrix = [i \in 0..(c.block_count - 1) |-> {}],
                       !.ge_pivots = [i \in 0..(pivot_count - 1) |-> UNINIT],
                       !.ge_row_map = [i \in 0..(pivot_count - 1) |-> UNINIT],
                       !.ge_col_map = [i \in 0..(ge_cols - 1) |-> UNINIT]]

RECURSIVE SetDeferredColumnsFrom(_, _, _)
SetDeferredColumnsFrom(c, cols, k) ==
    IF k > Len(cols) THEN c
    ELSE LET ge_column_i == k - 1
             defer_i == cols[k]
             refs == c.peel_col_refs[defer_i]
             touched == {refs[n] : n \in 1..Len(refs)}
         IN  SetDeferredColumnsFrom(
               [c EXCEPT !.ge_compress_matrix =
                             [r \in DOMAIN @ |-> IF r \in touched THEN @[r] \cup {ge_column_i}
                                                                  ELSE @[r]],
                         !.ge_col_map[ge_column_i] = defer_i,
                         !.peel_cols[defer_i].w2_refs = ge_column_i],
               cols, k + 1)

SetDeferredColumns(c) ==
    LET c1 == SetDeferredColumnsFrom(c, ColumnListFrom(c, c.defer_head_columns), 1)
    IN  [c1 EXCEPT !.ge_col_map =
            [g \in DOMAIN @ |-> IF g >= c.defer_count
                                  THEN c.block_count + (g - c.defer_count) ELSE @[g]]]

\* XOR the three mix bits of a row into a bit set.
RECURSIVE ToggleAll(_, _, _, _)
ToggleAll(bits, cols, k, offset) ==
    IF k > Len(cols) THEN bits
    ELSE ToggleAll(SetXor(bits, {offset + cols[k]}), cols, k + 1, offset)

MixBits(c, row, bits) == ToggleAll(bits, MixColumnsOf(c, row), 1, c.defer_count)

\* The loop without the mark that tells a deferred row from a peeled one.
RECURSIVE SetMixingFrom_Unmarked(_, _, _)
SetMixingFrom_Unmarked(c, rows, k) ==
    IF k > Len(rows) THEN c
    ELSE SetMixingFrom_Unmarked(
           [c EXCEPT !.ge_compress_matrix[rows[k]] = MixBits(c, c.peel_rows[rows[k]], @)],
           rows, k + 1)

RECURSIVE SetMixingFrom(_, _, _)
SetMixingFrom(c, rows, k) ==
    IF k > Len(rows) THEN c
    ELSE SetMixingFrom(
           [c EXCEPT !.peel_rows[rows[k]].unmarked[0] = LIST_TERM,
                     !.ge_compress_matrix[rows[k]] = MixBits(c, c.peel_rows[rows[k]], @)],
           rows, k + 1)

SetMixingColumnsForDeferredRows(c) ==
    LET lst == RowList(c, c.defer_head_rows)
    IN  IF ~lst.ok THEN [c EXCEPT !.undefined = TRUE]
        ELSE SetMixingFrom(c, lst.rows, 1)

RECURSIVE CopyDeferredRowsFrom(_, _, _)
CopyDeferredRowsFrom(c, rows, k) ==
    IF k > Len(rows) THEN c
    ELSE LET ge_row_i == c.added_count + k - 1
         IN  IF ge_row_i \notin DOMAIN c.ge_matrix \/ ge_row_i \notin DOMAIN c.ge_row_map
               THEN [c EXCEPT !.undefined = TRUE]
               ELSE CopyDeferredRowsFrom(
                      [c EXCEPT !.ge_matrix[ge_row_i] = c.ge_compress_matrix[rows[k]],
                                !.ge_row_map[ge_row_i] = rows[k]],
                      rows, k + 1)

CopyDeferredRows(c) ==
    LET lst == RowList(c, c.defer_head_rows)
    IN  IF ~lst.ok THEN [c EXCEPT !.undefined = TRUE]
        ELSE CopyDeferredRowsFrom(c, lst.rows, 1)

\* memcpy of the first n bytes of src, the rest zero.
CopyPadded(src, n) == [j \in DOMAIN src |-> IF j < n THEN src[j] ELSE {}]

\* memxor_set over the first n bytes of a and b, the rest copied from a.
XorSetPartial(a, b, n) == [j \in DOMAIN a |-> IF j < n THEN SetXor(a[j], b[j]) ELSE a[j]]

\* Bytes of the input block of row slot row_i the code uses: all of them,
\* except for the slot of the final message row.
InputBytes(c, row_i) ==
    IF row_i # c.block_count - 1 THEN c.block_bytes ELSE c.input_final_bytes

\* PeelDiagonal: the loop over the rows that reference the peeled column.
RECURSIVE PeelDiagonalRefs(_, _, _, _, _)
PeelDiagonalRefs(c, peel_row_i, peel_column_i, refs, k) ==
    IF c.undefined \/ k > Len(refs) THEN c
    ELSE IF refs[k] = peel_row_i THEN PeelDiagonalRefs(c, peel_row_i, peel_column_i, refs, k + 1)
    ELSE LET ref_row_i == refs[k]
             ref_row == c.peel_rows[ref_row_i]
             ref_column_i == ref_row.unmarked[0]
             src == c.recovery_blocks[peel_column_i]
             c1 == [c EXCEPT !.ge_compress_matrix[ref_row_i] =
                                 SetXor(@, c.ge_compress_matrix[peel_row_i])]
             c2 == IF ref_column_i = LIST_TERM THEN c1
                   ELSE IF ref_column_i \notin DOMAIN c.recovery_blocks
                     THEN [c1 EXCEPT !.undefined = TRUE]
                   ELSE IF IsCopied(ref_row) # 0
                     THEN [c1 EXCEPT !.recovery_blocks[ref_column_i] = memxor(@, src)]
                   ELSE [c1 EXCEPT !.recovery_blocks[ref_column_i] =
                                       XorSetPartial(src, c.input_blocks[ref_row_i],
                                                     InputBytes(c, ref_row_i)),
                                   !.peel_rows[ref_row_i] = SetIsCopied(@, 1)]
         IN  PeelDiagonalRefs(c2, peel_row_i, peel_column_i, refs, k + 1)

RECURSIVE PeelDiagonalFrom(_, _, _)
PeelDiagonalFrom(c, rows, k) ==
    IF c.undefined \/ k > Len(rows) THEN c
    ELSE LET peel_row_i == rows[k]
             row == c.peel_rows[peel_row_i]
             peel_column_i == row.unmarked[0]
             c1 == [c EXCEPT !.ge_compress_matrix[peel_row_i] = MixBits(c, row, @)]
             c2 == IF IsCopied(row) = 0
                     THEN [c1 EXCEPT !.recovery_blocks[peel_column_i] =
                              CopyPadded(c.input_blocks[peel_row_i], InputBytes(c, peel_row_i))]
                     ELSE c1
         IN  IF peel_column_i \notin DOMAIN c.peel_col_refs
               THEN [c EXCEPT !.undefined = TRUE]
               ELSE PeelDiagonalFrom(
                      PeelDiagonalRefs(c2, peel_row_i, peel_column_i,
                                       c.peel_col_refs[peel_column_i], 1),
                      rows, k + 1)

PeelDiagonal(c) ==
    LET lst == RowList(c, c.peel_head_rows)
    IN  IF ~lst.ok THEN [c EXCEPT !.undefined = TRUE]
        ELSE PeelDiagonalFrom(c, lst.rows, 1)

\* What a column adds to a check row: the compression row of the row that
\* solves it when it is peeled, its own GE bit otherwise.
ColumnImage(c, column_i) ==
    IF c.peel_cols[column_i].mark = MARK_PEEL
      THEN c.ge_compress_matrix[c.peel_cols[column_i].w2_refs]
      ELSE {c.peel_cols[column_i].w2_refs}

\* The bits whose columns are flipped for each generated row of a window
\* (build without CAT_SHUFFLE_HALF): the first row, check_count/2 derivative
\* rows, the middle row when check_count is odd, check_count/2 - 1 more.
WindowFlips(check_count, bits) ==
    LET set_count == (check_count + 1) \div 2
        loop_count == check_count \div 2
        pair(ii) == {bits[ii], bits[set_count + ii]}
    IN  << {bits[ii] : ii \in 0..(set_count - 1)} >>
        \o [ii \in 1..loop_count |-> pair(ii - 1)]
        \o (IF check_count % 2 = 1 THEN << {bits[loop_count]} >> ELSE << >>)
        \o [ii \in 1..(loop_count - 1) |-> pair(ii - 1)]

RECURSIVE XorImages(_, _, _, _)
XorImages(c, column_i, flipset, acc) ==
    IF flipset = {} THEN acc
    ELSE LET b == CHOOSE x \in flipset : TRUE
         IN  XorImages(c, column_i, flipset \ {b}, SetXor(acc, ColumnImage(c, column_i + b)))

\* One window of MultiplyDenseRows: k walks the generated rows.
RECURSIVE MultiplyWindow(_, _, _, _, _, _)
MultiplyWindow(c, column_i, rows, flips, k, temp_row) ==
    IF k > Len(flips) THEN [c EXCEPT !.ge_matrix[c.ge_rows] = temp_row]
    ELSE LET t == XorImages(c, column_i, flips[k], temp_row)
         IN  MultiplyWindow([c EXCEPT !.ge_matrix[rows[k - 1]] = SetXor(@, t)],
                            column_i, rows, flips, k + 1, t)

\* The light rows a remaining column is added to (x, then two iterations).
LightRowsOf(c, column_i) ==
    RowColumnsFrom(3, 1 + ((column_i \div c.light_count) % (c.light_count - 1)),
                   column_i % c.light_count, c.light_count, c.light_next_prime)

\* Bit dense_i of a drawn word.
DenseBit(rv, dense_i) == (rv \div (2 ^ dense_i)) % 2

\* The check rows a remaining column is added to, with multiplicity.
RemainingRowsOf(c, column_i, dense_rv) ==
    LET dense == {d \in 0..(c.dense_count - 1) : DenseBit(dense_rv, d) = 1}
    IN  [light |-> LightRowsOf(c, column_i), dense |-> {c.light_count + d : d \in dense}]

RECURSIVE XorIntoRows(_, _, _, _)
XorIntoRows(ge, rows, k, image) ==
    IF k > Len(rows) THEN ge
    ELSE XorIntoRows([ge EXCEPT ![rows[k]] = SetXor(@, image)], rows, k + 1, image)

\* The second loop of MultiplyDenseRows: one drawn word per column.
RECURSIVE MultiplyRemaining(_, _, _)
MultiplyRemaining(c, column_i, s) ==
    IF column_i >= c.block_count THEN c
    ELSE LET to == RemainingRowsOf(c, column_i, CatsChoiceValue(s))
             image == ColumnImage(c, column_i)
             ge1 == XorIntoRows(c.ge_matrix, to.light, 1, image)
             ge2 == [r \in DOMAIN ge1 |-> IF r \in to.dense THEN SetXor(ge1[r], image)
                                                           ELSE ge1[r]]
         IN  MultiplyRemaining([c EXCEPT !.ge_matrix = ge2], column_i + 1,
                               CatsChoiceAdvance(s))

\* The first loop of MultiplyDenseRows: windows of check_count columns.
RECURSIVE MultiplyDenseRowsFrom(_, _, _)
MultiplyDenseRowsFrom(c, column_i, s) ==
    IF column_i + c.added_count <= c.block_count
      THEN LET rows == ShuffleDeck16(s, c.added_count)
               bits == ShuffleDeck16(rows.s, c.added_count)
           IN  MultiplyDenseRowsFrom(
                 MultiplyWindow(c, column_i, rows.deck,
                                WindowFlips(c.added_count, bits.deck), 1, {}),
                 column_i + c.added_count, bits.s)
      ELSE MultiplyRemaining(c, column_i, s)

\* prng.Initialize(seed) with one argument
CatsChoiceInitialize1(seed) == CatsChoiceInitialize(seed, 0)

MultiplyDenseRows(c) == MultiplyDenseRowsFrom(c, 0, CatsChoiceInitialize1(c.c_seed))

\* ---------------------------------------------------------------- 4.F invertibility patch
\* The first entries of the seed table, indexed by n (entry n is at n + 1).
INVERTIBLE_MATRIX_SEEDS ==
    << 0, 0, 2, 2, 10, 5, 6, 1, 2, 0, 0, 3, 5, 0, 0, 1 >>

\* Row row_i of the patch: one 64-bit word is drawn as two 32-bit values,
\* and bit j of the word is XORed into column offset + j.  Bits of the word
\* at and above n fall in columns the matrix does not use.
RECURSIVE AddInvertibleRows(_, _, _, _, _)
AddInvertibleRows(matrix, offset, n, row_i, s) ==
    IF row_i >= n THEN matrix
    ELSE LET rv1 == CatsChoiceValue(s)
             s1 == CatsChoiceAdvance(s)
             s2 == CatsChoiceAdvance(s1)
             word == {offset + j : j \in {b \in 0..(n - 1) : DenseBit(rv1, b) = 1}}
         IN  AddInvertibleRows([matrix EXCEPT ![row_i] = SetXor(@, word)],
                               offset, n, row_i + 1, s2)

AddInvertibleGF2Matrix(matrix, offset, n) ==
    IF n <= 0 THEN matrix
    ELSE AddInvertibleRows(matrix, offset, n, 0,
                           CatsChoiceInitialize1(INVERTIBLE_MATRIX_SEEDS[n + 1]))

\* ---------------------------------------------------------------- 4.G Gaussian elimination
\* Add the pivot row to every later row that has the pivot bit, above the
\* pivot column only (row0 has the pivot bit cleared).
RECURSIVE TriangleEliminate(_, _, _, _, _)
TriangleEliminate(c, pivot_i, ge_row, pivot_k, pivot_count) ==
    IF pivot_k >= pivot_count THEN c
    ELSE LET ge_row_k == c.ge_pivots[pivot_k]
             c1 == IF pivot_i \in c.ge_matrix[ge_row_k]
                     THEN [c EXCEPT !.ge_matrix[ge_row_k] =
                              SetXor(@, {b \in ge_row : b > pivot_i})]
                     ELSE c
         IN  TriangleEliminate(c1, pivot_i, ge_row, pivot_k + 1, pivot_count)

\* The order positions from pivot_j on whose row has bit pivot_i set.
PivotCandidates(c, pivot_i, pivot_count) ==
    {pivot_j \in pivot_i..(pivot_count - 1) : pivot_i \in c.ge_matrix[c.ge_pivots[pivot_j]]}

SetMin(S) == CHOOSE x \in S : \A y \in S : x <= y

\* A triangulation that eliminates with the row it found but leaves the
\* pivot order as it was.
RECURSIVE TriangleFrom_Unswapped(_, _, _)
TriangleFrom_Unswapped(c, pivot_i, pivot_count) ==
    IF pivot_i >= pivot_count THEN [ok |-> TRUE, c |-> c]
    ELSE LET found == PivotCandidates(c, pivot_i, pivot_count)
         IN  IF found = {}
               THEN [ok |-> FALSE, c |-> [c EXCEPT !.ge_resume_pivot = pivot_i]]
               ELSE TriangleFrom_Unswapped(
                      TriangleEliminate(c, pivot_i, c.ge_matrix[c.ge_pivots[SetMin(found)]],
                                        SetMin(found) + 1, pivot_count),
                      pivot_i + 1, pivot_count)

RECURSIVE TriangleFrom(_, _, _)
TriangleFrom(c, pivot_i, pivot_count) ==
    IF pivot_i >= pivot_count THEN [ok |-> TRUE, c |-> c]
    ELSE LET found == PivotCandidates(c, pivot_i, pivot_count)
         IN  IF found = {}
               THEN [ok |-> FALSE, c |-> [c EXCEPT !.ge_resume_pivot = pivot_i]]
               ELSE LET pivot_j == SetMin(found)
                        ge_row == c.ge_matrix[c.ge_pivots[pivot_j]]
                        c1 == [c EXCEPT !.ge_pivots[pivot_i] = c.ge_pivots[pivot_j],
                                        !.ge_pivots[pivot_j] = c.ge_pivots[pivot_i]]
                    IN  TriangleFrom(
                          TriangleEliminate(c1, pivot_i, ge_row, pivot_j + 1, pivot_count),
                          pivot_i + 1, pivot_count)

Triangle(c) ==
    LET pivot_count == c.defer_count + c.added_count
        c1 == [c EXCEPT !.ge_pivots =
                  [p \in DOMAIN @ |-> IF p < pivot_count THEN p ELSE @[p]]]
    IN  TriangleFrom(c1, 0, pivot_count)

\* SolveMatrix that answers MoreBlocks also when Triangle found every pivot.
SolveMatrix_NeverWin(c, mem) ==
    LET c2 == AllocateMatrix(GreedyPeeling(c), mem)
        c6 == CopyDeferredRows(PeelDiagonal(SetMixingColumnsForDeferredRows(
                  SetDeferredColumns(c2))))
        c7 == MultiplyDenseRows(c6)
        c8 == [c7 EXCEPT !.ge_matrix =
                  AddInvertibleGF2Matrix(@, c7.defer_count, c7.added_count)]
    IN  IF ~mem THEN [r |-> R_OUT_OF_MEMORY, c |-> [c2 EXCEPT !.solve_runs = @ + 1]]
        ELSE [r |-> R_MORE_BLOCKS, c |-> [Triangle(c8).c EXCEPT !.solve_runs = @ + 1]]

\* ---------------------------------------------------------------- 4.J solve
\* mem: whether the allocation of the matrices succeeds.
SolveMatrix(c, mem) ==
    LET c1 == GreedyPeeling(c)
        c2 == AllocateMatrix(c1, mem)
        c3 == SetDeferredColumns(c2)
        c4 == SetMixingColumnsForDeferredRows(c3)
        c5 == PeelDiagonal(c4)
        c6 == CopyDeferredRows(c5)
        c7 == MultiplyDenseRows(c6)
        c8 == [c7 EXCEPT !.ge_matrix =
                  AddInvertibleGF2Matrix(@, c7.defer_count, c7.added_count)]
        tri == Triangle(c8)
    IN  IF ~mem THEN [r |-> R_OUT_OF_MEMORY, c |-> [c2 EXCEPT !.solve_runs = @ + 1]]
        ELSE IF c6.undefined THEN [r |-> R_NONE, c |-> [c6 EXCEPT !.solve_runs = @ + 1]]
        ELSE [r |-> IF tri.ok THEN R_WIN ELSE R_MORE_BLOCKS,
              c |-> [tri.c EXCEPT !.solve_runs = @ + 1]]

\* ---------------------------------------------------------------- 4.H substitution
\* XOR into acc the recovery blocks of the peeled columns among cols.
RECURSIVE XorPeeledColumns(_, _, _, _)
XorPeeledColumns(c, cols, k, acc) ==
    IF k > Len(cols) THEN acc
    ELSE XorPeeledColumns(c, cols, k + 1,
           IF c.peel_cols[cols[k]].mark = MARK_PEEL
             THEN memxor(acc, c.recovery_blocks[cols[k]]) ELSE acc)

\* The first loop of InitializeColumnValues: the pivots that solve a column.
RECURSIVE InitializeColumnValuesFrom(_, _, _)
InitializeColumnValuesFrom(c, pivot_i, pivot_count) ==
    IF c.undefined \/ pivot_i >= pivot_count THEN c
    ELSE LET column_i == c.ge_col_map[pivot_i]
             ge_row_i == c.ge_pivots[pivot_i]
             pivot_row_i == c.ge_row_map[ge_row_i]
         IN  IF ge_row_i \notin DOMAIN c.ge_row_map
               THEN [c EXCEPT !.undefined = TRUE]
             ELSE IF ge_row_i < c.added_count
               THEN InitializeColumnValuesFrom(
                      [c EXCEPT !.recovery_blocks[column_i] = ZeroBlock(c.block_bytes),
                                !.ge_row_map[ge_row_i] = column_i],
                      pivot_i + 1, pivot_count)
             ELSE IF pivot_row_i \notin DOMAIN c.input_blocks
               THEN [c EXCEPT !.undefined = TRUE]
             ELSE InitializeColumnValuesFrom(
                    [c EXCEPT !.recovery_blocks[column_i] =
                        XorPeeledColumns(c, PeelColumnsOf(c, c.peel_rows[pivot_row_i]), 1,
                                         c.input_blocks[pivot_row_i])],
                    pivot_i + 1, pivot_count)

\* The second loop: check rows left without a column are marked for skipping.
RECURSIVE MarkUnusedCheckRows(_, _)
MarkUnusedCheckRows(c, pivot_i) ==
    IF c.undefined \/ pivot_i >= c.ge_rows THEN c
    ELSE LET ge_row_i == c.ge_pivots[pivot_i]
         IN  IF ge_row_i = UNINIT THEN [c EXCEPT !.undefined = TRUE]
             ELSE IF ge_row_i < c.added_count
               THEN MarkUnusedCheckRows([c EXCEPT !.ge_row_map[ge_row_i] = LIST_TERM],
                                        pivot_i + 1)
             ELSE MarkUnusedCheckRows(c, pivot_i + 1)

InitializeColumnValues(c) ==
    LET pivot_count == c.defer_count + c.added_count
    IN  MarkUnusedCheckRows(InitializeColumnValuesFrom(c, 0, pivot_count), pivot_count)

\* memxor of a block into the column that check row ge_row_i solves, unless
\* the row is marked LIST_TERM.
AddToCheckRow(c, ge_row_i, block) ==
    LET check_column_i == c.ge_row_map[ge_row_i]
    IN  IF check_column_i = LIST_TERM THEN c
        ELSE IF check_column_i \notin DOMAIN c.recovery_blocks
          THEN [c EXCEPT !.undefined = TRUE]
        ELSE [c EXCEPT !.recovery_blocks[check_column_i] = memxor(@, block)]

\* XOR of the recovery blocks of the peeled columns column_i + b, b in flipset.
RECURSIVE XorPeeledBits(_, _, _, _)
XorPeeledBits(c, column_i, flipset, acc) ==
    IF flipset = {} THEN acc
    ELSE LET b == CHOOSE x \in flipset : TRUE
         IN  XorPeeledBits(c, column_i, flipset \ {b},
               IF c.peel_cols[column_i + b].mark = MARK_PEEL
                 THEN memxor(acc, c.recovery_blocks[column_i + b]) ELSE acc)

\* Whether the first row of a window advances the row pointer: only when
\* one of its columns is peeled.
FirstRowAdvances(c, column_i, flipset) ==
    \E b \in flipset : c.peel_cols[column_i + b].mark = MARK_PEEL

\* One window of AddCheckValues: k walks the generated rows, row is the
\* position of the row pointer in the shuffled deck, and the running block
\* is kept in the spare recovery block.
RECURSIVE AddCheckWindow(_, _, _, _, _, _)
AddCheckWindow(c, column_i, rows, flips, k, row) ==
    IF c.undefined \/ k > Len(flips) THEN c
    ELSE LET temp_i == c.block_count + c.added_count
             temp_block == XorPeeledBits(c, column_i, flips[k],
                             IF k = 1 THEN ZeroBlock(c.block_bytes)
                                      ELSE c.recovery_blocks[temp_i])
             c1 == [c EXCEPT !.recovery_blocks[temp_i] = temp_block]
         IN  IF k = 1 /\ ~FirstRowAdvances(c, column_i, flips[k])
               THEN AddCheckWindow(c1, column_i, rows, flips, k + 1, row)
               ELSE AddCheckWindow(AddToCheckRow(c1, rows[row], temp_block),
                                   column_i, rows, flips, k + 1, row + 1)

RECURSIVE AddToCheckRows(_, _, _, _)
AddToCheckRows(c, rows, k, block) ==
    IF c.undefined \/ k > Len(rows) THEN c
    ELSE AddToCheckRows(AddToCheckRow(c, rows[k], block), rows, k + 1, block)

\* The dense rows of a remaining column, in increasing order.
RECURSIVE DenseRowsSeq(_, _, _)
DenseRowsSeq(c, dense_rv, dense_i) ==
    IF dense_i >= c.dense_count THEN << >>
    ELSE (IF DenseBit(dense_rv, dense_i) = 1 THEN << dense_i + c.light_count >> ELSE << >>)
         \o DenseRowsSeq(c, dense_rv, dense_i + 1)

RECURSIVE AddCheckRemaining(_, _, _)
AddCheckRemaining(c, column_i, s) ==
    IF c.undefined \/ column_i >= c.block_count THEN c
    ELSE LET dense_rv == CatsChoiceValue(s)
             source_block == c.recovery_blocks[column_i]
             c1 == IF c.peel_cols[column_i].mark = MARK_PEEL
                     THEN AddToCheckRows(c, LightRowsOf(c, column_i)
                                            \o DenseRowsSeq(c, dense_rv, 0), 1, source_block)
                     ELSE c
         IN  AddCheckRemaining(c1, column_i + 1, CatsChoiceAdvance(s))

RECURSIVE AddCheckValuesFrom(_, _, _)
AddCheckValuesFrom(c, column_i, s) ==
    IF c.undefined THEN c
    ELSE IF column_i + c.added_count <= c.block_count
      THEN LET rows == ShuffleDeck16(s, c.added_count)
               bits == ShuffleDeck16(rows.s, c.added_count)
           IN  AddCheckValuesFrom(
                 AddCheckWindow(c, column_i, rows.deck,
                                WindowFlips(c.added_count, bits.deck), 1, 0),
                 column_i + c.added_count, bits.s)
      ELSE AddCheckRemaining(c, column_i, s)

AddCheckValues(c) == AddCheckValuesFrom(c, 0, CatsChoiceInitialize1(c.c_seed))

\* XOR into acc the recovery blocks of the columns the GE columns in bitset
\* stand for.
RECURSIVE XorGEColumns(_, _, _)
XorGEColumns(c, bitset, acc) ==
    IF bitset = {} THEN acc
    ELSE LET g == CHOOSE x \in bitset : TRUE
         IN  XorGEColumns(c, bitset \ {g}, memxor(acc, c.recovery_blocks[c.ge_col_map[g]]))

RECURSIVE AddSubdiagonalValuesFrom(_, _, _)
AddSubdiagonalValuesFrom(c, pivot_i, ge_rows) ==
    IF pivot_i >= ge_rows THEN c
    ELSE LET pivot_column_i == c.ge_col_map[pivot_i]
             ge_row == c.ge_matrix[c.ge_pivots[pivot_i]]
             below == {g \in 0..(pivot_i - 1) : g \in ge_row}
         IN  AddSubdiagonalValuesFrom(
               [c EXCEPT !.recovery_blocks[pivot_column_i] = XorGEColumns(c, below, @)],
               pivot_i + 1, ge_rows)

AddSubdiagonalValues(c) ==
    AddSubdiagonalValuesFrom(c, 0, c.defer_count + c.added_count)

\* The steps lo..hi-1 of a loop, in order. The range is halved and the
\* blocks are compared, which has them evaluated before the loop goes on,
\* so that long loops can be evaluated.
RECURSIVE ForLoop(_, _, _, _)
ForLoop(Step(_, _), c, lo, hi) ==
    IF hi <= lo \/ c.recovery_blocks # c.recovery_blocks THEN c
    ELSE IF hi = lo + 1 THEN Step(c, lo)
    ELSE ForLoop(Step, ForLoop(Step, c, lo, (lo + hi) \div 2), (lo + hi) \div 2, hi)

\* The body of the inner loop of the back-substitution: the solved column
\* pivot_i is added to the pivot row above_i when that row has the bit.
BackSubstituteStep(c, pivot_i, above_i) ==
    IF pivot_i \in c.ge_matrix[c.ge_pivots[above_i]]
      THEN [c EXCEPT !.recovery_blocks[c.ge_col_map[above_i]] =
                memxor(@, c.recovery_blocks[c.ge_col_map[pivot_i]])]
      ELSE c

\* The inner loop, from above_i up to the pivot.
BackSubstituteColumn(c, pivot_i, above_i) ==
    ForLoop(LAMBDA x, i : BackSubstituteStep(x, pivot_i, i), c, above_i, pivot_i)

\* The plain loop, from pivot_i down.
BackSubstituteFrom(c, pivot_i) ==
    ForLoop(LAMBDA x, k : BackSubstituteColumn(x, pivot_i - k, 0), c, 0, pivot_i + 1)

\* ---------------------------------------------------------------- windowed back-substitution
CAT_WINDOW_THRESHOLD_4 == 24
CAT_WINDOW_THRESHOLD_5 == 45
CAT_WINDOW_THRESHOLD_6 == 70
CAT_WINDOW_THRESHOLD_7 == 135

\* The window width chosen on entry.
InitialWindow(pivot_i) ==
    IF pivot_i >= CAT_WINDOW_THRESHOLD_7 THEN 7
    ELSE IF pivot_i >= CAT_WINDOW_THRESHOLD_6 THEN 6
    ELSE IF pivot_i >= CAT_WINDOW_THRESHOLD_5 THEN 5
    ELSE 4

\* next_check_i: always the threshold of the width in use.
WindowThreshold(w) ==
    IF w = 7 THEN CAT_WINDOW_THRESHOLD_7
    ELSE IF w = 6 THEN CAT_WINDOW_THRESHOLD_6
    ELSE IF w = 5 THEN CAT_WINDOW_THRESHOLD_5
    ELSE CAT_WINDOW_THRESHOLD_4

\* The width of the window that follows, 0 when the loop is left.
NextWindow(pivot_i, w) ==
    IF pivot_i >= WindowThreshold(w) THEN w
    ELSE IF pivot_i >= CAT_WINDOW_THRESHOLD_6 THEN 6
    ELSE IF pivot_i >= CAT_WINDOW_THRESHOLD_5 THEN 5
    ELSE IF pivot_i >= CAT_WINDOW_THRESHOLD_4 THEN 4
    ELSE 0

\* win_table[1..]: the slots of the first Peeled columns in column order,
\* win_lim - 1 of them at most.
PeeledSlots(c) ==
    SelectSeq([i \in 1..c.block_count |-> i - 1],
              LAMBDA column_i : c.peel_cols[column_i].mark = MARK_PEEL)

\* A table that takes the slots of the first columns whatever their mark.
WinTableSlots_AnyColumn(c, win_lim) ==
    SubSeq([i \in 1..c.block_count |-> i - 1], 1, Min(c.block_count, win_lim - 1))

WinTableSlots(c, win_lim) ==
    SubSeq(PeeledSlots(c), 1, Min(Len(PeeledSlots(c)), win_lim - 1))

\* The bit ge_mask selects in the row words at src_pivot_i, the mask having
\* started at start_i and been rotated right once per pivot since.
MaskedBit(start_i, src_pivot_i) ==
    ((src_pivot_i \div 64) * 64)
        + (((start_i % 64) + 192 - (start_i - src_pivot_i)) % 64)

\* The small triangle of a window: the solved column src_pivot_i is added
\* to the rows of the window above it.
RECURSIVE SmallTriangleColumn(_, _, _, _)
SmallTriangleColumn(c, pivot_i, src_pivot_i, dest_pivot_i) ==
    IF dest_pivot_i >= src_pivot_i THEN c
    ELSE SmallTriangleColumn(
           IF MaskedBit(pivot_i, src_pivot_i) \in c.ge_matrix[c.ge_pivots[dest_pivot_i]]
             THEN [c EXCEPT !.recovery_blocks[c.ge_col_map[dest_pivot_i]] =
                       memxor(@, c.recovery_blocks[c.ge_col_map[src_pivot_i]])]
             ELSE c,
           pivot_i, src_pivot_i, dest_pivot_i + 1)

RECURSIVE SmallTriangle(_, _, _, _)
SmallTriangle(c, pivot_i, src_pivot_i, backsub_i) ==
    IF src_pivot_i <= backsub_i THEN c
    ELSE SmallTriangle(SmallTriangleColumn(c, pivot_i, src_pivot_i, backsub_i),
                       pivot_i, src_pivot_i - 1, backsub_i)

\* memxor_set(win_table[dest], win_table[a], win_table[b])
WinTableSet(c, win_table, dest, a, b) ==
    [c EXCEPT !.recovery_blocks[win_table[dest]] =
        memxor(c.recovery_blocks[win_table[a]], c.recovery_blocks[win_table[b]])]

\* The entries p + ii, ii = 1..p-1, of the table for the bit of weight p.
WinTableFill(c, win_table, p, first) ==
    ForLoop(LAMBDA x, ii : WinTableSet(x, win_table, p + ii, ii, p), c, first, p)

\* The 3-bit entries, generated as 1+4, 2+4 and 1+6.
WinTableThree(c, win_table) ==
    WinTableSet(WinTableSet(WinTableSet(c, win_table, 5, 1, 4), win_table, 6, 2, 4),
                win_table, 7, 1, 6)

\* The window table of w bits: entry 2^b points at the solution column of
\* pivot backsub_i + b, the other entries are generated in the scratch
\* slots.
RECURSIVE WinTableBuild(_, _, _, _, _)
WinTableBuild(c, win_table, backsub_i, w, b) ==
    IF b >= w THEN [c |-> c, t |-> win_table]
    ELSE WinTableBuild(
           IF b = 2
             THEN WinTableThree(c, [win_table EXCEPT ![4] = c.ge_col_map[backsub_i + 2]])
             ELSE WinTableFill(c, [win_table EXCEPT ![2 ^ b] = c.ge_col_map[backsub_i + b]],
                               2 ^ b, 1),
           [win_table EXCEPT ![2 ^ b] = c.ge_col_map[backsub_i + b]],
           backsub_i, w, b + 1)

\* The bits of 64-bit word word_i of a row, and the shifts and the
\* truncation to 32 bits applied to a word.
RowWord(ge_row, word_i) == {b - 64 * word_i : b \in {x \in ge_row : x \div 64 = word_i}}
ShiftRight(word, n) == {b - n : b \in {x \in word : x >= n}}
ShiftLeft(word, n) == {b + n : b \in {x \in word : x + n < 64}}
Low32(word) == {b \in word : b < 32}

RECURSIVE BitsValue(_)
BitsValue(word) ==
    IF word = {} THEN 0
    ELSE LET b == CHOOSE x \in word : TRUE IN 2 ^ b + BitsValue(word \ {b})

\* win_bits read from the first word alone.
WinBits_OneWord(ge_row, backsub_i, pivot_i, w) ==
    BitsValue({b \in Low32(ShiftRight(RowWord(ge_row, backsub_i \div 64), backsub_i % 64)) :
                 b < w})

\* win_bits of a row: the w bits from backsub_i on, read from one word or
\* from two when the window straddles a word boundary.
WinBits(ge_row, backsub_i, pivot_i, w) ==
    LET first_word == backsub_i \div 64
        shift0 == backsub_i % 64
    IN  BitsValue({b \in (IF first_word = pivot_i \div 64
                            THEN Low32(ShiftRight(RowWord(ge_row, first_word), shift0))
                            ELSE Low32(ShiftRight(RowWord(ge_row, first_word), shift0))
                                 \cup Low32(ShiftLeft(RowWord(ge_row, first_word + 1),
                                                      64 - shift0))) : b < w})

\* The table entry of a pivot row above the window is added to it.
WindowApplyStep(c, win_table, backsub_i, pivot_i, w, above_pivot_i) ==
    IF WinBits(c.ge_matrix[c.ge_pivots[above_pivot_i]], backsub_i, pivot_i, w) # 0
      THEN [c EXCEPT !.recovery_blocks[c.ge_col_map[above_pivot_i]] =
              memxor(@, c.recovery_blocks[
                  win_table[WinBits(c.ge_matrix[c.ge_pivots[above_pivot_i]],
                                    backsub_i, pivot_i, w)]])]
      ELSE c

WindowApply(c, win_table, backsub_i, pivot_i, w, first) ==
    ForLoop(LAMBDA x, above_pivot_i :
                WindowApplyStep(x, win_table, backsub_i, pivot_i, w, above_pivot_i),
            c, first, backsub_i)

\* One window with its table built, and the loop over the windows; the
\* result is the codec with the pivot the plain loop goes on from. The
\* blocks are compared to have them evaluated window by window.
WindowBuilt(c, win_table, pivot_i, w) ==
    WinTableBuild(SmallTriangle(c, pivot_i, pivot_i, pivot_i - w + 1),
                  win_table, pivot_i - w + 1, w, 0)

RECURSIVE WindowedFrom(_, _, _, _)
WindowedNext(built, pivot_i, w) ==
    IF NextWindow(pivot_i - w, w) = 0
      THEN [c |-> WindowApply(built.c, built.t, pivot_i - w + 1, pivot_i, w, 0),
            pivot_i |-> pivot_i - w]
      ELSE WindowedFrom(WindowApply(built.c, built.t, pivot_i - w + 1, pivot_i, w, 0),
                        built.t, pivot_i - w, NextWindow(pivot_i - w, w))

WindowedFrom(c, win_table, pivot_i, w) ==
    IF c.recovery_blocks # c.recovery_blocks THEN [c |-> c, pivot_i |-> pivot_i]
    ELSE WindowedNext(WindowBuilt(c, win_table, pivot_i, w), pivot_i, w)

\* The windowed part of BackSubstituteAboveDiagonal: entered from
\* CAT_WINDOW_THRESHOLD_5 pivots on when the Peeled columns give the table
\* its slots.
BackSubstituteWindowed(c, pivot_i) ==
    IF pivot_i >= CAT_WINDOW_THRESHOLD_5
         /\ Len(WinTableSlots(c, 2 ^ InitialWindow(pivot_i)))
                >= 2 ^ InitialWindow(pivot_i) - 1
      THEN WindowedFrom(c, WinTableSlots(c, 2 ^ InitialWindow(pivot_i)),
                        pivot_i, InitialWindow(pivot_i))
      ELSE [c |-> c, pivot_i |-> pivot_i]

BackSubstituteRemaining(from) == BackSubstituteFrom(from.c, from.pivot_i)

BackSubstituteAboveDiagonal(c) ==
    BackSubstituteRemaining(BackSubstituteWindowed(c, c.defer_count + c.added_count - 1))

\* XOR into acc the recovery blocks of the columns of a row other than the
\* one it solves.
RECURSIVE XorOtherColumns(_, _, _, _, _)
XorOtherColumns(c, cols, k, dest_column_i, acc) ==
    IF k > Len(cols) THEN acc
    ELSE XorOtherColumns(c, cols, k + 1, dest_column_i,
           IF cols[k] # dest_column_i THEN memxor(acc, c.recovery_blocks[cols[k]]) ELSE acc)

RECURSIVE SubstituteFrom(_, _, _)
SubstituteFrom(c, rows, k) ==
    IF c.undefined \/ k > Len(rows) THEN c
    ELSE LET row_i == rows[k]
             row == c.peel_rows[row_i]
             dest_column_i == row.unmarked[0]
             mix == MixColumnsOf(c, row)
             src == c.recovery_blocks[c.block_count + mix[1]]
             d0 == XorSetPartial(src, c.input_blocks[row_i], InputBytes(c, row_i))
             d1 == memxor(memxor(d0, c.recovery_blocks[c.block_count + mix[2]]),
                          c.recovery_blocks[c.block_count + mix[3]])
             d2 == IF row.peel_weight >= 2
                     THEN XorOtherColumns(c, PeelColumnsOf(c, row), 1, dest_column_i, d1)
                     ELSE d1
         IN  IF dest_column_i \notin DOMAIN c.peel_cols
               THEN [c EXCEPT !.undefined = TRUE]
               ELSE SubstituteFrom([c EXCEPT !.recovery_blocks[dest_column_i] = d2],
                                   rows, k + 1)

Substitute(c) ==
    LET lst == RowList(c, c.peel_head_rows)
    IN  IF ~lst.ok THEN [c EXCEPT !.undefined = TRUE]
        ELSE SubstituteFrom(c, lst.rows, 1)

GenerateRecoveryBlocks(c) ==
    LET c1 == InitializeColumnValues(c)
        c2 == AddCheckValues(c1)
    IN  IF c2.undefined THEN c2
        ELSE Substitute(BackSubstituteAboveDiagonal(AddSubdiagonalValues(c2)))

\* ---------------------------------------------------------------- 4.I resume
\* The reuse loop: the first row from _ge_resume_pivot on that is not a check
\* row, or the row of the last position looked at.
RECURSIVE FindReuseRow(_, _, _)
FindReuseRow(c, pivot_i, ge_row_i) ==
    IF pivot_i >= c.ge_rows THEN ge_row_i
    ELSE IF c.ge_pivots[pivot_i] >= c.added_count THEN c.ge_pivots[pivot_i]
    ELSE FindReuseRow(c, pivot_i + 1, c.ge_pivots[pivot_i])

\* XOR into bits what each column of cols adds to a GE row.
RECURSIVE XorColumnImages(_, _, _, _)
XorColumnImages(c, cols, k, bits) ==
    IF k > Len(cols) THEN bits
    ELSE XorColumnImages(c, cols, k + 1, SetXor(bits, ColumnImage(c, cols[k])))

\* Flip the bits of the new row (GE row ge_row_i, bits so far) up to the
\* resume point: the pivot bit itself stays set.  The pivot row is read from
\* the matrix as it is then, so it is the new row itself where the pivot
\* order names GE row ge_row_i.
RECURSIVE ResumeEliminate(_, _, _, _, _)
ResumeEliminate(c, ge_row_i, bits, pivot_j, pivot_i) ==
    IF pivot_j >= pivot_i THEN bits
    ELSE LET ge_pivot_j == c.ge_pivots[pivot_j]
             ge_pivot_row == IF ge_pivot_j = ge_row_i THEN bits ELSE c.ge_matrix[ge_pivot_j]
         IN  ResumeEliminate(c, ge_row_i,
               IF pivot_j \in bits
                 THEN SetXor(bits, {b \in ge_pivot_row : b > pivot_j})
                 ELSE bits,
               pivot_j + 1, pivot_i)

\* A resumed elimination that stops at the pivot the new row supplied.
ResumeFrom_Stop(c, pivot_i, pivot_count) == [ok |-> TRUE, c |-> c]

\* The elimination that continues after the new row supplied a pivot.
RECURSIVE ResumeFrom(_, _, _)
ResumeFrom(c, pivot_i, pivot_count) ==
    IF pivot_i >= pivot_count THEN [ok |-> TRUE, c |-> c]
    ELSE LET found == PivotCandidates(c, pivot_i, c.ge_rows)
         IN  IF found = {}
               THEN [ok |-> FALSE, c |-> [c EXCEPT !.ge_resume_pivot = pivot_i]]
               ELSE LET pivot_j == SetMin(found)
                        ge_row == c.ge_matrix[c.ge_pivots[pivot_j]]
                        c1 == [c EXCEPT !.ge_pivots[pivot_i] = c.ge_pivots[pivot_j],
                                        !.ge_pivots[pivot_j] = c.ge_pivots[pivot_i]]
                    IN  ResumeFrom(
                          TriangleEliminate(c1, pivot_i, ge_row, pivot_j + 1, c.ge_rows),
                          pivot_i + 1, pivot_count)

\* Whether every value the resume path reads was written before.
ResumeStateDefined(c) ==
    /\ c.has_matrix
    /\ c.ge_resume_pivot \in 0..(c.defer_count + c.added_count - 1)
    /\ \A p \in 0..(c.ge_rows - 1) : c.ge_pivots[p] \in DOMAIN c.ge_matrix

\* Whether the columns of the new row refer to rows and GE columns that
\* exist (they need not once ReconstructOutput has reused _peel_cols).
ResumeColumnsDefined(c, cols) ==
    \A k \in 1..Len(cols) :
        IF c.peel_cols[cols[k]].mark = MARK_PEEL
          THEN c.peel_cols[cols[k]].w2_refs \in DOMAIN c.ge_compress_matrix
          ELSE c.peel_cols[cols[k]].w2_refs \in 0..(c.defer_count + c.added_count - 1)

ResumeSolveMatrix(c, id, block) ==
    LET reuse == c.used_count >= c.block_count + c.extra_count
        ge_row_i == IF reuse THEN FindReuseRow(c, c.ge_resume_pivot, UNINIT) ELSE c.ge_rows
        row_i == IF reuse THEN c.ge_row_map[ge_row_i] ELSE c.used_count
        c1 == IF reuse THEN c
              ELSE [c EXCEPT !.ge_rows = @ + 1, !.used_count = @ + 1,
                             !.ge_row_map[ge_row_i] = row_i]
        shape == GeneratePeelRow(id, c.p_seed, c.block_count, c.added_count)
        c2 == [c1 EXCEPT !.peel_rows[row_i] =
                  [@ EXCEPT !.id = id, !.peel_weight = shape.peel_weight,
                            !.peel_a = shape.peel_a, !.peel_x0 = shape.peel_x0,
                            !.mix_a = shape.mix_a, !.mix_x0 = shape.mix_x0],
                         !.input_blocks[row_i] = block,
                         !.ge_matrix[ge_row_i] = {}]
        row == c2.peel_rows[row_i]
        mixed == MixBits(c2, row, {})
        generated == XorColumnImages(c2, PeelColumnsOf(c2, row), 1, mixed)
        pivot_i == c.ge_resume_pivot
        ge_new_row == ResumeEliminate(c2, ge_row_i, generated, 0, pivot_i)
        c3 == [c2 EXCEPT !.ge_matrix[ge_row_i] = ge_new_row,
                         !.independent = \E b \in ge_new_row : b >= pivot_i]
    IN  IF ~ResumeStateDefined(c) \/ ge_row_i \notin DOMAIN c.ge_row_map
           \/ row_i \notin DOMAIN c.peel_rows
           \/ ~ResumeColumnsDefined(c, PeelColumnsOf(c, row))
          THEN [ok |-> FALSE, c |-> [c EXCEPT !.undefined = TRUE]]
        ELSE IF pivot_i \notin ge_new_row
          THEN [ok |-> FALSE, c |-> [c3 EXCEPT !.ge_pivots[ge_row_i] = ge_row_i]]
        ELSE ResumeFrom([c3 EXCEPT !.ge_pivots[ge_row_i] = c3.ge_pivots[pivot_i],
                                   !.ge_pivots[pivot_i] = ge_row_i],
                        pivot_i + 1, c.defer_count + c.added_count)

\* ---------------------------------------------------------------- facade
\* Byte idx of the caller's message is the symbol idx.
MessageBlock(T, M, i) ==
    [j \in 0..(M - 1) |-> IF i * M + j < T THEN {i * M + j} ELSE {Garbage(2, i * M + j)}]

\* SetInput: the input blocks are the caller's message buffer itself, so
\* the final block runs past the end of a message that does not fill it.
SetInput(c, T) ==
    [c EXCEPT !.input_blocks = [i \in 0..(c.block_count - 1) |->
                                   MessageBlock(T, c.block_bytes, i)]]

\* The loop over the message rows: op is what OpportunisticPeeling made of
\* row id.
RECURSIVE EncodeFeedRows(_, _), EncodeFeedNext(_, _)
EncodeFeedRows(c, id) ==
    IF id >= c.block_count THEN [ok |-> TRUE, c |-> c]
    ELSE EncodeFeedNext(OpportunisticPeeling(c, id, id), id)

EncodeFeedNext(op, id) ==
    IF ~op.ok THEN [ok |-> FALSE, c |-> op.c]
    ELSE EncodeFeedRows(op.c, id + 1)

\* sm: what SolveMatrix returned.
EncodeFeedSolved(sm) ==
    IF sm.r = R_WIN THEN [r |-> R_WIN, c |-> GenerateRecoveryBlocks(sm.c)]
    ELSE sm

\* fed: what the loop over the message rows returned.
EncodeFeedFed(fed, mem) ==
    IF ~fed.ok THEN [r |-> R_BAD_INPUT, c |-> fed.c]
    ELSE EncodeFeedSolved(SolveMatrix(fed.c, mem))

EncodeFeedOp(c, T, mem) == EncodeFeedFed(EncodeFeedRows(SetInput(c, T), 0), mem)

\* A row regenerated from the recovery blocks: its peel columns, then its
\* three mix columns.
RegenerateRow(c, id) ==
    LET shape == GeneratePeelRow(id, c.p_seed, c.block_count, c.added_count)
        cols == RowColumnsFrom(shape.peel_weight, shape.peel_a, shape.peel_x0,
                               c.block_count, c.block_next_prime)
        mix == RowColumnsFrom(3, shape.mix_a, shape.mix_x0,
                              c.added_count, c.added_next_prime)
        XorSeq[k \in 0..Len(cols)] ==
            IF k = 0 THEN ZeroBlock(c.block_bytes)
            ELSE memxor(XorSeq[k - 1], c.recovery_blocks[cols[k]])
    IN  memxor(memxor(memxor(XorSeq[Len(cols)], c.recovery_blocks[c.block_count + mix[1]]),
                      c.recovery_blocks[c.block_count + mix[2]]),
               c.recovery_blocks[c.block_count + mix[3]])

\* Encode that hands out the final block as it lies in the message buffer.
EncodeOp_Unpadded(c, id) ==
    IF id < c.block_count THEN c.input_blocks[id] ELSE RegenerateRow(c, id)

\* Encode (build with CAT_COPY_FIRST_N): message rows are copied from the
\* input, the final one zero-padded; the others are regenerated.
EncodeOp(c, id) ==
    IF id < c.block_count
      THEN IF id # c.block_count - 1 THEN c.input_blocks[id]
           ELSE CopyPadded(c.input_blocks[id], c.input_final_bytes)
      ELSE RegenerateRow(c, id)

\* The ids the decoder has stored, each once, in the order they came first.
AddId(fed, id) == IF \E k \in 1..Len(fed) : fed[k] = id THEN fed ELSE Append(fed, id)

\* sm: what SolveMatrix returned for the first N rows.
DecodeFeedSolved(sm) ==
    IF sm.r = R_WIN
      THEN [r |-> R_WIN, c |-> [GenerateRecoveryBlocks(sm.c) EXCEPT !.path = "solve",
                                                                  !.won = TRUE]]
    ELSE [r |-> sm.r, c |-> [sm.c EXCEPT !.path = "solve"]]

\* c1: the codec with the block stored and counted.
DecodeFeedStored(c1, mem) ==
    IF c1.used_count # c1.block_count
      THEN [r |-> R_MORE_BLOCKS, c |-> [c1 EXCEPT !.path = "peel"]]
    ELSE DecodeFeedSolved(SolveMatrix(c1, mem))

\* op: what OpportunisticPeeling made of the row in slot row_i.
DecodeFeedPeeled(op, row_i, block_in, mem) ==
    IF ~op.ok THEN [r |-> R_MORE_BLOCKS, c |-> [op.c EXCEPT !.path = "rejected"]]
    ELSE DecodeFeedStored([op.c EXCEPT !.input_blocks[row_i] = block_in,
                                       !.used_count = @ + 1,
                                       !.fed = AddId(@, op.c.peel_rows[row_i].id)], mem)

\* rs: what ResumeSolveMatrix returned for the row id.
DecodeFeedResumed(rs, id) ==
    IF ~rs.ok THEN [r |-> R_MORE_BLOCKS, c |-> [rs.c EXCEPT !.path = "resume",
                                                            !.fed = AddId(@, id)]]
    ELSE [r |-> R_WIN, c |-> [GenerateRecoveryBlocks(rs.c) EXCEPT !.path = "resume",
                                                                   !.won = TRUE,
                                                                   !.fed = AddId(@, id)]]

DecodeFeedOp(c, id, block_in, mem) ==
    IF c.used_count < c.block_count
      THEN DecodeFeedPeeled(OpportunisticPeeling(c, c.used_count, id), c.used_count,
                            block_in, mem)
    ELSE DecodeFeedResumed(ResumeSolveMatrix(c, id, block_in), id)

\* The caller's output buffer before anything is written to it.
FreshOutput(c) == [j \in 0..(c.block_count * c.block_bytes - 1) |-> {Garbage(3, j)}]

\* memcpy of the first n bytes of block to offset base of the output buffer.
WriteOutput(out, base, block, n) ==
    [j \in DOMAIN out |-> IF j >= base /\ j < base + n THEN block[j - base] ELSE out[j]]

\* The first loop of ReconstructOutput: received message rows are copied.
\* st.copied is the copied_rows array, st.out the output buffer.
RECURSIVE CopyReceivedRows(_, _, _)
CopyReceivedRows(c, row_i, st) ==
    IF row_i >= c.used_count THEN st
    ELSE LET id == c.peel_rows[row_i].id
         IN  IF id >= c.block_count THEN CopyReceivedRows(c, row_i + 1, st)
             ELSE CopyReceivedRows(c, row_i + 1,
                    [copied |-> [st.copied EXCEPT ![id] = 1],
                     out |-> WriteOutput(st.out, c.block_bytes * id, c.input_blocks[row_i],
                                         IF id # c.block_count - 1 THEN c.block_bytes
                                         ELSE c.output_final_bytes)])

\* The second loop: rows that were not copied are regenerated, whole blocks.
RECURSIVE RegenerateLostRows(_, _, _)
RegenerateLostRows(c, row_i, st) ==
    IF row_i >= c.block_count THEN st
    ELSE RegenerateLostRows(c, row_i + 1,
           IF st.copied[row_i] # 0 THEN st
           ELSE [st EXCEPT !.out = WriteOutput(@, c.block_bytes * row_i,
                                               RegenerateRow(c, row_i), c.block_bytes)])

\* copied_rows is the memory of _peel_cols: byte b of it is byte b % 5 of
\* the packed 5-byte PeelColumn b \div 5 (next, w2_refs, mark).
ColumnBytes(col) ==
    << col.next % 256, col.next \div 256, col.w2_refs % 256, col.w2_refs \div 256, col.mark >>

OverlayCopiedRows(c, copied) ==
    [k \in DOMAIN c.peel_cols |->
        LET old == ColumnBytes(c.peel_cols[k])
            new == [b \in 1..5 |-> IF 5 * k + b - 1 < c.block_count
                                     THEN copied[5 * k + b - 1] ELSE old[b]]
        IN  [next |-> new[1] + 256 * new[2], w2_refs |-> new[3] + 256 * new[4],
             mark |-> new[5]]]

ReconstructOutputOp(c) ==
    LET st0 == [copied |-> [b \in 0..(c.block_count - 1) |-> 0], out |-> FreshOutput(c)]
        st == RegenerateLostRows(c, 0, CopyReceivedRows(c, 0, st0))
    IN  [out |-> st.out, c |-> [c EXCEPT !.peel_cols = OverlayCopiedRows(c, st.copied)]]

\* ---------------------------------------------------------------- state
VARIABLES
    g_p_seed, g_c_seed,   \* the process-wide seeds
    message_bytes,        \* T of the message being sent (0: none yet)
    enc, dec,             \* the encoder and the decoder Codec objects
    enc_result,           \* what the last encoder call returned
    dec_result,           \* what the last decoder call returned
    next_id,              \* the least row id the sender has not produced yet
    packet,               \* the block in flight: [id, block], or << >>
    held,                 \* a block the network delays: [id, block], or << >>
    output,               \* what ReconstructOutput wrote last, and after how many feeds
    feeds                 \* number of DecodeFeed calls so far

vars == << g_p_seed, g_c_seed, message_bytes, enc, dec, enc_result, dec_result,
           next_id, packet, held, output, feeds >>

\* Message lengths tried: a whole number of blocks, a partial final block,
\* and a length whose block count is not in the table.
MessageSizes == {5 * BlockBytes, 5 * BlockBytes - 1, 3 * BlockBytes}

\* Values the process-wide seeds can hold.
SeedValues == {0, 31}

Init ==
    /\ g_p_seed \in SeedValues
    /\ g_c_seed \in SeedValues
    /\ message_bytes = 0
    /\ enc = NewCodec
    /\ dec = NewCodec
    /\ enc_result = R_NONE
    /\ dec_result = R_NONE
    /\ next_id = 0
    /\ packet = << >>
    /\ held = << >>
    /\ output = [data |-> << >>, feeds |-> 0]
    /\ feeds = 0

\* ---------------------------------------------------------------- setup
InitializeEncoderOp(c, T, M, p_seed, c_seed, mem) ==
    LET cm == ChooseMatrix(c, T, M, p_seed, c_seed)
        partial == IF T % M <= 0 THEN M ELSE T % M
        c1 == [cm.c EXCEPT !.input_final_bytes = partial, !.extra_count = 0]
    IN  IF cm.r # R_WIN THEN cm
        ELSE IF ~mem THEN [r |-> R_OUT_OF_MEMORY, c |-> c1]
        ELSE [r |-> R_WIN, c |-> AllocateWorkspace(c1, TRUE)]

InitializeDecoderOp(c, T, M, p_seed, c_seed, mem) ==
    LET cm == ChooseMatrix(c, T, M, p_seed, c_seed)
        partial == IF T % M <= 0 THEN M ELSE T % M
        c1 == [cm.c EXCEPT !.used_count = 0, !.output_final_bytes = partial,
                           !.input_final_bytes = M, !.extra_count = MaxExtraRows]
    IN  IF cm.r # R_WIN THEN cm
        ELSE IF ~mem THEN [r |-> R_OUT_OF_MEMORY, c |-> c1]
        ELSE [r |-> R_WIN, c |-> AllocateWorkspace(AllocateInput(c1, TRUE), TRUE)]

\* ---------------------------------------------------------------- actions
InitializeEncoder ==
    /\ enc_result = R_NONE
    /\ \E T \in MessageSizes, mem \in BOOLEAN :
         LET res == InitializeEncoderOp(enc, T, BlockBytes, g_p_seed, g_c_seed, mem)
         IN  /\ message_bytes' = T
             /\ enc' = res.c
             /\ enc_result' = res.r
    /\ UNCHANGED << g_p_seed, g_c_seed, dec, dec_result, next_id, packet, held, output, feeds >>

InitializeDecoder ==
    /\ message_bytes # 0
    /\ dec_result = R_NONE
    /\ \E mem \in BOOLEAN :
         LET res == InitializeDecoderOp(dec, message_bytes, BlockBytes, g_p_seed, g_c_seed, mem)
         IN  /\ dec' = res.c
             /\ dec_result' = res.r
    /\ UNCHANGED << g_p_seed, g_c_seed, message_bytes, enc, enc_result, next_id, packet, held,
                    output, feeds >>

\* The sender hands its message to an initialized encoder, once.
EncodeFeed ==
    /\ enc.has_workspace
    /\ enc.input_blocks = << >>
    /\ \E mem \in BOOLEAN :
         LET res == EncodeFeedOp(enc, message_bytes, mem)
         IN  /\ enc' = res.c
             /\ enc_result' = res.r
    /\ UNCHANGED << g_p_seed, g_c_seed, message_bytes, dec, dec_result, next_id, packet, held,
                    output, feeds >>

\* The sender produces the block of a row id not below any it produced
\* before; ids it skips are blocks the network lost.  Message rows can be
\* produced whatever EncodeFeed returned, the others once it returned Ok.
Encode ==
    /\ enc.input_blocks # << >>
    /\ ~enc.undefined
    /\ packet = << >>
    /\ \E id \in next_id..MaxId :
         /\ enc_result = R_WIN \/ id < enc.block_count
         /\ packet' = [id |-> id, block |-> EncodeOp(enc, id)]
         /\ next_id' = id + 1
    /\ UNCHANGED << g_p_seed, g_c_seed, message_bytes, enc, dec, enc_result, dec_result, held,
                    output, feeds >>

\* The network holds a block back ...
Delay ==
    /\ packet # << >>
    /\ held = << >>
    /\ held' = packet
    /\ packet' = << >>
    /\ UNCHANGED << g_p_seed, g_c_seed, message_bytes, enc, dec, enc_result, dec_result,
                    next_id, output, feeds >>

\* ... and delivers it after later ones.
Release ==
    /\ held # << >>
    /\ packet = << >>
    /\ packet' = held
    /\ held' = << >>
    /\ UNCHANGED << g_p_seed, g_c_seed, message_bytes, enc, dec, enc_result, dec_result,
                    next_id, output, feeds >>

\* What a call can return once the decoder has executed an operation with
\* undefined behaviour.
ResultsOf(res) == IF res.c.undefined THEN {R_WIN, R_MORE_BLOCKS} ELSE {res.r}

\* The receiver feeds the block in flight to an initialized decoder.  The
\* matrices are allocated by the call that stores the N-th row.
DecodeFeed ==
    /\ dec.has_workspace
    /\ ~dec.undefined
    /\ packet # << >>
    /\ feeds < MaxFeeds
    /\ \E mem \in (IF dec.used_count = dec.block_count - 1 THEN BOOLEAN ELSE {TRUE}) :
         LET res == DecodeFeedOp(dec, packet.id, packet.block, mem)
         IN  /\ dec' = res.c
             /\ dec_result' \in ResultsOf(res)
    /\ packet' = << >>
    /\ feeds' = feeds + 1
    /\ UNCHANGED << g_p_seed, g_c_seed, message_bytes, enc, enc_result, next_id, held, output >>

\* The message the sender started from, as the output buffer should hold it.
Message ==
    [j \in 0..(dec.block_count * dec.block_bytes - 1) |->
        IF j < message_bytes THEN {j} ELSE {Garbage(3, j)}]

\* What the output buffer can hold after ReconstructOutput.
OutputsOf(res) == IF dec.undefined THEN {res.out, Message} ELSE {res.out}

\* After a DecodeFeed that returned Ok the receiver reads the message out.
ReconstructOutput ==
    /\ feeds > 0
    /\ dec_result = R_WIN
    /\ output.feeds # feeds
    /\ LET res == ReconstructOutputOp(dec)
       IN  /\ dec' = res.c
           /\ \E data \in OutputsOf(res) : output' = [data |-> data, feeds |-> feeds]
    /\ UNCHANGED << g_p_seed, g_c_seed, message_bytes, enc, enc_result, dec_result, next_id,
                    packet, held, feeds >>

Next ==
    \/ InitializeEncoder
    \/ InitializeDecoder
    \/ EncodeFeed
    \/ Encode
    \/ Delay
    \/ Release
    \/ DecodeFeed
    \/ ReconstructOutput

Spec == Init /\ [][Next]_vars

\* ---------------------------------------------------------------- seeds rewritten
\* g_p_seed and g_c_seed are non-static globals: any other part of the
\* process can assign them, at any time.
SetSeeds ==
    /\ \E p \in SeedValues, c \in SeedValues :
         /\ g_p_seed' = p
         /\ g_c_seed' = c
    /\ UNCHANGED << message_bytes, enc, dec, enc_result, dec_result, next_id, packet, held,
                    output, feeds >>

SeedNext ==
    \/ SetSeeds
    \/ InitializeEncoder
    \/ InitializeDecoder

SeedSpec == Init /\ [][SeedNext]_vars

\* ---------------------------------------------------------------- endless feeding
\* The sender repeats the rows 0..RepeatId of its stream, in any order, for
\* as long as the receiver is not done.
EncodeAgain ==
    /\ enc.input_blocks # << >>
    /\ ~enc.undefined
    /\ ~dec.won
    /\ packet = << >>
    /\ \E id \in 0..RepeatId :
         packet' = [id |-> id, block |-> EncodeOp(enc, id)]
    /\ UNCHANGED << g_p_seed, g_c_seed, message_bytes, enc, dec, enc_result, dec_result,
                    next_id, held, output, feeds >>

\* The receiver feeds every block it gets until a DecodeFeed returns Ok.
DecodeFeedAgain ==
    /\ dec.has_workspace
    /\ ~dec.undefined
    /\ ~dec.won
    /\ packet # << >>
    /\ \E res \in {DecodeFeedOp(dec, packet.id, packet.block, TRUE)} :
         /\ dec' = res.c
         /\ dec_result' \in ResultsOf(res)
    /\ packet' = << >>
    /\ feeds' = Min(feeds + 1, MaxFeeds)
    /\ UNCHANGED << g_p_seed, g_c_seed, message_bytes, enc, enc_result, next_id, held, output >>

\* The ids of the first N blocks that reached the receiver over a link that
\* loses blocks, the sender repeating its rows.
FirstIds == << 0, 3, 0, 2, 3 >>

\* The decoder after DecodeFeed of the blocks ids of the encoder e.
RECURSIVE FeedAll(_, _, _)
FeedAll(e, res, ids) ==
    IF ids = << >> THEN res
    ELSE FeedAll(e, DecodeFeedOp(res.c, Head(ids), EncodeOp(e, Head(ids)), TRUE), Tail(ids))

\* The encoder holds a message of N full blocks, and the decoder has been
\* fed the first N blocks that reached it.
LiveInit ==
    /\ g_p_seed = 0
    /\ g_c_seed = 0
    /\ message_bytes = 5 * BlockBytes
    /\ enc = EncodeFeedOp(InitializeEncoderOp(NewCodec, 5 * BlockBytes, BlockBytes, 0, 0, TRUE).c,
                          5 * BlockBytes, TRUE).c
    /\ enc_result = R_WIN
    /\ \E res \in {FeedAll(enc, InitializeDecoderOp(NewCodec, 5 * BlockBytes, BlockBytes,
                                                    0, 0, TRUE), FirstIds)} :
         /\ dec = res.c
         /\ dec_result = res.r
    /\ next_id = 0
    /\ packet = << >>
    /\ held = << >>
    /\ output = [data |-> << >>, feeds |-> 0]
    /\ feeds = Len(FirstIds)

LiveNext ==
    \/ EncodeAgain
    \/ DecodeFeedAgain

\* The sender is a loop: it sends another block whenever the last one has
\* been taken.  Nothing is assumed of the receiver.
LiveSpec == LiveInit /\ [][LiveNext]_vars /\ WF_vars(EncodeAgain)

\* ---------------------------------------------------------------- no spare slot left
\* A second arrival order, under a dense seed of 1: the ids of the rows the
\* decoder holds when its spare slot is used up.
ReuseIds == << 0, 1, 3, 6, 7, 2 >>

ReuseInit ==
    /\ g_p_seed = 0
    /\ g_c_seed = 1
    /\ message_bytes = 5 * BlockBytes
    /\ enc = EncodeFeedOp(InitializeEncoderOp(NewCodec, 5 * BlockBytes, BlockBytes, 0, 1, TRUE).c,
                          5 * BlockBytes, TRUE).c
    /\ enc_result = R_WIN
    /\ \E res \in {FeedAll(enc, InitializeDecoderOp(NewCodec, 5 * BlockBytes, BlockBytes,
                                                    0, 1, TRUE), ReuseIds)} :
         /\ dec = res.c
         /\ dec_result = res.r
    /\ next_id = 0
    /\ packet = << >>
    /\ held = << >>
    /\ output = [data |-> << >>, feeds |-> 0]
    /\ feeds = Len(ReuseIds)

\* The sender goes on from either arrival order.
ReuseSpec == (LiveInit \/ ReuseInit) /\ [][LiveNext]_vars


\* ---------------------------------------------------------------- back-substitution alone
\* A codec as AddSubdiagonalValues leaves it, of the size the windows need:
\* ge_rows pivots of which 4 are check rows, peeled Peeled columns that
\* alternate with the Deferred ones, rotated pivots, a dense upper triangle
\* with bits under the diagonal kept, one byte per block, and each block
\* holding a symbol of its own.
SolvedDeferred(defer_count, peeled, column_i) ==
    IF column_i < 2 * Min(defer_count, peeled) THEN column_i % 2 = 1
    ELSE defer_count > peeled

SolvedColumn(defer_count, peeled, pivot_i) ==
    IF pivot_i >= defer_count THEN peeled + pivot_i
    ELSE IF pivot_i < Min(defer_count, peeled) THEN 2 * pivot_i + 1
    ELSE peeled + pivot_i

SolvedRow(ge_rows, seed, pivot_i) ==
    {pivot_i}
      \cup {q \in (pivot_i + 1)..(ge_rows - 1) :
              (pivot_i * 7 + q * 13 + seed * 5 + pivot_i * q) % 11 < 5}
      \cup {q \in 0..(pivot_i - 1) : (pivot_i + q + seed) % 5 = 0}

SolvedCodec(ge_rows, peeled, seed) ==
    [NewCodec EXCEPT
        !.block_bytes = 1,
        !.block_count = ge_rows - 4 + peeled,
        !.added_count = 4,
        !.defer_count = ge_rows - 4,
        !.ge_rows = ge_rows,
        !.has_workspace = TRUE,
        !.has_matrix = TRUE,
        !.peel_cols = [i \in 0..(ge_rows - 4 + peeled - 1) |->
                          [FreshPeelColumn EXCEPT
                              !.mark = IF SolvedDeferred(ge_rows - 4, peeled, i)
                                         THEN MARK_DEFER ELSE MARK_PEEL]],
        !.recovery_blocks = [i \in 0..(ge_rows + peeled) |-> [j \in 0..0 |-> {i}]],
        !.ge_col_map = [p \in 0..(ge_rows - 1) |-> SolvedColumn(ge_rows - 4, peeled, p)],
        !.ge_pivots = [p \in 0..(ge_rows - 1) |-> (p + seed + 1) % ge_rows],
        !.ge_matrix = [r \in 0..(ge_rows - 1) |->
                          SolvedRow(ge_rows, seed, (r + 2 * ge_rows - seed - 1) % ge_rows)]]

\* The sizes: no window, one width, a width change with a window across
\* the first word boundary, and all four widths with windows across both
\* boundaries; with and without the Peeled columns the table needs.
BackSubInputs ==
    {[ge_rows |-> n, peeled |-> k, seed |-> s] :
        n \in {20, 46, 66, 71, 140}, k \in {20, 130}, s \in 0..3}

\* dec is back-substituted by the build with CAT_WINDOWED_BACKSUB, enc by
\* the build without it.
BackSubInit ==
    /\ \E in \in BackSubInputs :
          /\ dec = SolvedCodec(in.ge_rows, in.peeled, in.seed)
          /\ enc = SolvedCodec(in.ge_rows, in.peeled, in.seed)
    /\ g_p_seed = 0
    /\ g_c_seed = 0
    /\ message_bytes = 0
    /\ enc_result = R_NONE
    /\ dec_result = R_NONE
    /\ next_id = 0
    /\ packet = << >>
    /\ held = << >>
    /\ output = [data |-> << >>, feeds |-> 0]
    /\ feeds = 0

BackSubstituteWindowedBuild ==
    /\ dec_result = R_NONE
    /\ dec' = BackSubstituteAboveDiagonal(dec)
    /\ dec_result' = R_WIN
    /\ UNCHANGED << g_p_seed, g_c_seed, message_bytes, enc, enc_result, next_id,
                    packet, held, output, feeds >>

BackSubstitutePlainBuild ==
    /\ enc_result = R_NONE
    /\ enc' = BackSubstituteFrom(enc, enc.defer_count + enc.added_count - 1)
    /\ enc_result' = R_WIN
    /\ UNCHANGED << g_p_seed, g_c_seed, message_bytes, dec, dec_result, next_id,
                    packet, held, output, feeds >>

BackSubNext == BackSubstituteWindowedBuild \/ BackSubstitutePlainBuild

BackSubSpec == BackSubInit /\ [][BackSubNext]_vars

\* ---------------------------------------------------------------- value generation alone
\* A codec as a Triangle that succeeded leaves it, of the size the windows
\* need: the matrix of SolvedCodec; slot r < peeled holds the r-th peeled
\* row, which solves the r-th Peeled column and covers besides it nothing,
\* a Deferred column or a Peeled column solved before it; the slots after
\* them hold the deferred rows, each of which covers the Deferred column of
\* its number and a Peeled column; the Peeled columns hold what
\* PeelDiagonal left, the other columns what the allocation left.
PeeledColumn(defer_count, peeled, r) ==
    IF r < Min(defer_count, peeled) THEN 2 * r ELSE defer_count + r

TriangulatedOther(defer_count, peeled, seed, r) ==
    IF r < peeled
      THEN IF r % 3 = 0 THEN SolvedColumn(defer_count, peeled, (r + seed) % defer_count)
           ELSE PeeledColumn(defer_count, peeled, (r + seed) % r)
      ELSE PeeledColumn(defer_count, peeled, (r + seed) % peeled)

TriangulatedSolves(defer_count, peeled, r) ==
    IF r < peeled THEN PeeledColumn(defer_count, peeled, r)
    ELSE SolvedColumn(defer_count, peeled, r - peeled)

TriangulatedRow(defer_count, peeled, seed, r) ==
    [FreshPeelRow EXCEPT
        !.next = IF r + 1 = peeled \/ r + 1 = defer_count + peeled THEN LIST_TERM ELSE r + 1,
        !.id = r,
        !.peel_weight = IF r < peeled /\ r % 5 = 4 THEN 1 ELSE 2,
        !.peel_x0 = IF r < peeled /\ r % 5 = 4
                      THEN TriangulatedSolves(defer_count, peeled, r)
                      ELSE Min(TriangulatedSolves(defer_count, peeled, r),
                               TriangulatedOther(defer_count, peeled, seed, r)),
        !.peel_a = IF TriangulatedSolves(defer_count, peeled, r)
                        > TriangulatedOther(defer_count, peeled, seed, r)
                     THEN TriangulatedSolves(defer_count, peeled, r)
                            - TriangulatedOther(defer_count, peeled, seed, r)
                     ELSE TriangulatedOther(defer_count, peeled, seed, r)
                            - TriangulatedSolves(defer_count, peeled, r),
        !.mix_x0 = r % 4,
        !.mix_a = 1 + (r % 3),
        !.unmarked_count = 0,
        !.unmarked = [k \in 0..1 |->
                        IF k = 0 THEN TriangulatedSolves(defer_count, peeled, r) ELSE 0]]

TriangulatedCodec(defer_count, peeled, seed) ==
    [SolvedCodec(defer_count + 4, peeled, seed) EXCEPT
        !.block_next_prime = NextPrime16(defer_count + peeled),
        !.c_seed = seed,
        !.light_count = 2,
        !.dense_count = 2,
        !.light_next_prime = NextPrime16(2),
        !.added_next_prime = NextPrime16(4),
        !.input_final_bytes = 1,
        !.output_final_bytes = 1,
        !.extra_count = 0,
        !.used_count = defer_count + peeled,
        !.has_input = TRUE,
        !.peel_head_rows = 0,
        !.peel_tail_rows = peeled - 1,
        !.defer_head_rows = peeled,
        !.peel_rows = [r \in 0..(defer_count + peeled - 1) |->
                          TriangulatedRow(defer_count, peeled, seed, r)],
        !.peel_cols = [i \in 0..(defer_count + peeled - 1) |->
                          IF SolvedDeferred(defer_count, peeled, i)
                            THEN [next |-> LIST_TERM, mark |-> MARK_DEFER,
                                  w2_refs |-> IF i < 2 * Min(defer_count, peeled)
                                                THEN (i - 1) \div 2 ELSE i - peeled]
                            ELSE [next |-> LIST_TERM, mark |-> MARK_PEEL,
                                  w2_refs |-> IF i < 2 * Min(defer_count, peeled)
                                                THEN i \div 2 ELSE i - defer_count]],
        !.ge_row_map = [r \in 0..(defer_count + 3) |->
                           IF r < 4 THEN UNINIT ELSE peeled + r - 4],
        !.input_blocks = [r \in 0..(defer_count + peeled - 1) |-> [j \in 0..0 |-> {2000 + r}]],
        !.recovery_blocks = [i \in 0..(defer_count + peeled + 4) |->
                                IF i < defer_count + peeled
                                     /\ ~SolvedDeferred(defer_count, peeled, i)
                                  THEN [j \in 0..0 |-> {3000 + i}]
                                  ELSE [j \in 0..0 |-> {Garbage(0, i)}]]]

\* The sizes: 46 and 48 pivots, with too few Peeled columns for the table
\* of 31 entries and with enough of them.
RecoveryInputs ==
    {[defer_count |-> d, peeled |-> k, seed |-> s] :
        d \in {42, 44}, k \in {20, 33, 38}, s \in 0..5}

\* GenerateRecoveryBlocks as the build without CAT_WINDOWED_BACKSUB has it.
GenerateRecoveryBlocksPlain(c) ==
    Substitute(BackSubstituteFrom(
        AddSubdiagonalValues(AddCheckValues(InitializeColumnValues(c))),
        c.defer_count + c.added_count - 1))

\* dec generates its recovery blocks in the build with CAT_WINDOWED_BACKSUB,
\* enc in the build without it.
RecoveryInit ==
    /\ \E in \in RecoveryInputs :
          /\ dec = TriangulatedCodec(in.defer_count, in.peeled, in.seed)
          /\ enc = TriangulatedCodec(in.defer_count, in.peeled, in.seed)
    /\ g_p_seed = 0
    /\ g_c_seed = 0
    /\ message_bytes = 0
    /\ enc_result = R_NONE
    /\ dec_result = R_NONE
    /\ next_id = 0
    /\ packet = << >>
    /\ held = << >>
    /\ output = [data |-> << >>, feeds |-> 0]
    /\ feeds = 0

GenerateWindowedBuild ==
    /\ dec_result = R_NONE
    /\ dec' = GenerateRecoveryBlocks(dec)
    /\ dec_result' = R_WIN
    /\ UNCHANGED << g_p_seed, g_c_seed, message_bytes, enc, enc_result, next_id,
                    packet, held, output, feeds >>

GeneratePlainBuild ==
    /\ enc_result = R_NONE
    /\ enc' = GenerateRecoveryBlocksPlain(enc)
    /\ enc_result' = R_WIN
    /\ UNCHANGED << g_p_seed, g_c_seed, message_bytes, dec, dec_result, next_id,
                    packet, held, output, feeds >>

RecoveryNext == GenerateWindowedBuild \/ GeneratePlainBuild

RecoverySpec == RecoveryInit /\ [][RecoveryNext]_vars

\* ---------------------------------------------------------------- properties
\* The decoder has been fed and its last DecodeFeed returned Ok.
DecodedOk == feeds > 0 /\ dec_result = R_WIN

\* ReconstructOutput has run after the latest DecodeFeed.
OutputWritten == output.feeds > 0 /\ output.feeds = feeds

\* The first T bytes of the output buffer are the message.
OutputIsMessage == \A j \in 0..(message_bytes - 1) : output.data[j] = {j}

\* C1: whenever a DecodeFeed fed with blocks of the encoder returned Ok,
\* the following ReconstructOutput writes exactly the original message.
C1_NoWrongOutput == OutputWritten => OutputIsMessage

\* The id-th block of the message, the missing tail of the final block as
\* zero bytes.
PaddedMessageBlock(id) ==
    [j \in 0..(BlockBytes - 1) |->
        IF id * BlockBytes + j < message_bytes THEN {id * BlockBytes + j} ELSE {}]

\* The blocks Encode has produced that have not been fed yet.
Produced == {p \in {packet, held} : p # << >>}

\* C2: for every id < N, Encode(id) produces exactly the id-th input block
\* of the message, whatever the recovery blocks hold.
C2_Systematic ==
    \A p \in Produced : p.id < enc.block_count => p.block = PaddedMessageBlock(p.id)

\* C2 witness: a message row produced by an encoder whose EncodeFeed did not
\* return Ok, and the final row of a message that does not fill its block.
C2_Witness ==
    /\ packet # << >>
    /\ packet.id = enc.block_count - 1
    /\ message_bytes % BlockBytes # 0
    /\ enc_result # R_WIN

\* Triangle found a pivot row for every GE column.
TriangleSucceeded(c) ==
    /\ c.has_matrix
    /\ \A pivot_i \in 0..(c.defer_count + c.added_count - 1) :
          pivot_i \in c.ge_matrix[c.ge_pivots[pivot_i]]

\* What one DecodeFeed call did, by the number of rows accepted before it:
\* below N - 1 (or a rejected row) it only peels and answers MoreBlocks; the
\* call that accepts the N-th row runs the solver, for the only time; every
\* later call resumes.  With oom, the N-th call may answer OutOfMemory when
\* the GE matrices were not allocated.
DecodeFeedProtocol(oom) ==
    /\ dec_result' = R_WIN => dec'.used_count >= dec.block_count
    /\ dec'.used_count < dec.block_count =>
          /\ dec'.path \in {"peel", "rejected"}
          /\ dec_result' = R_MORE_BLOCKS
          /\ dec'.solve_runs = 0
    /\ (dec.used_count = dec.block_count - 1 /\ dec'.used_count = dec.block_count) =>
          /\ dec'.path = "solve"
          /\ dec.solve_runs = 0 /\ dec'.solve_runs = 1
          /\ dec_result' = IF TriangleSucceeded(dec') THEN R_WIN
                           ELSE IF oom /\ ~dec'.has_matrix THEN R_OUT_OF_MEMORY
                           ELSE R_MORE_BLOCKS
    /\ dec.used_count >= dec.block_count =>
          /\ dec'.path = "resume"
          /\ dec'.solve_runs = dec.solve_runs

RECURSIVE RankFrom(_, _, _)
RankFrom(rows, col, hi) ==
    IF col > hi \/ Len(rows) = 0 THEN 0
    ELSE LET having == {i \in 1..Len(rows) : col \in rows[i]}
             p == SetMin(having)
             rest == [i \in 1..(Len(rows) - 1) |->
                        LET r == rows[IF i < p THEN i ELSE i + 1]
                        IN  IF col \in r THEN SetXor(r, rows[p]) ELSE r]
         IN  IF having = {} THEN RankFrom(rows, col + 1, hi)
             ELSE 1 + RankFrom(rest, col + 1, hi)

\* Rank of the GE matrix of a codec that waits for more rows: the pivots
\* found below the resume pivot, plus the rank of the rows not yet chosen
\* as pivots on the columns from the resume pivot on (their lower bits only
\* record the eliminations done).
GERank(c) ==
    LET from == c.ge_resume_pivot
        rows == [k \in 1..(c.ge_rows - from) |->
                    {b \in c.ge_matrix[c.ge_pivots[from + k - 1]] : b >= from}]
    IN  from + RankFrom(rows, from, c.defer_count + c.added_count - 1)

\* The decoder holds N rows or more, has not returned Ok, and its last call
\* asked for more: the state ResumeSolveMatrix resumes from.
AwaitsRows(c, result) ==
    /\ c.has_matrix
    /\ ~c.undefined
    /\ ~c.won
    /\ c.used_count >= c.block_count
    /\ result = R_MORE_BLOCKS

GEColumns(c) == c.defer_count + c.added_count

C6_PrefixKept ==
    [][(feeds' = feeds + 1 /\ AwaitsRows(dec, dec_result)
          /\ dec_result' = R_MORE_BLOCKS /\ ~dec'.undefined) =>
          /\ dec'.ge_resume_pivot >= dec.ge_resume_pivot
          /\ \A q \in 0..(dec.ge_resume_pivot - 1) :
                /\ dec'.ge_pivots[q] = dec.ge_pivots[q]
                /\ dec'.ge_matrix[dec.ge_pivots[q]] = dec.ge_matrix[dec.ge_pivots[q]]]_vars

\* Number of blocks of a message of T bytes in blocks of M bytes.
BlockCountOf(T, M) == (T + M - 1) \div M

\* Nothing of the codec has been allocated.
NothingAllocated(c) ==
    /\ ~c.has_workspace /\ ~c.has_input /\ ~c.has_matrix
    /\ c.recovery_blocks = << >> /\ c.peel_rows = << >> /\ c.peel_cols = << >>
    /\ c.peel_col_refs = << >> /\ c.input_blocks = << >>
    /\ c.ge_matrix = << >> /\ c.ge_compress_matrix = << >> /\ c.ge_pivots = << >>

\* The message length given to InitializeEncoder and InitializeDecoder has a
\* block count that is not tabulated.
Untabulated ==
    /\ message_bytes # 0
    /\ ~GenerateMatrixParameters(BlockCountOf(message_bytes, BlockBytes)).ok

\* C7: InitializeEncoder and InitializeDecoder return BadInput whenever N is
\* not one of the tabulated block counts, and then allocate nothing.
C7_UntabulatedRejected ==
    Untabulated =>
       /\ enc_result = R_BAD_INPUT /\ NothingAllocated(enc)
       /\ dec_result \in {R_NONE, R_BAD_INPUT} /\ NothingAllocated(dec)

\* C7 witness: both initializers were called with an untabulated block count.
C7_Witness == Untabulated /\ enc_result = R_BAD_INPUT /\ dec_result = R_BAD_INPUT

\* EncodeFeed has been called.
EncoderFed == enc.input_blocks # << >>

\* C8: EncodeFeed returns only Ok or BadInput; for a message of a tabulated
\* N it never returns MoreBlocks or OutOfMemory.
C8_EncodeFeedResults == EncoderFed => enc_result \in {R_WIN, R_BAD_INPUT}

\* C9: when opportunistic peeling of a fed row would exceed the per-column
\* row-reference cap, DecodeFeed reports BadInput for that row, and so does
\* EncodeFeed.
C9_RefOverflowIsBadInput ==
    /\ (feeds > 0 /\ dec.path = "rejected") => dec_result = R_BAD_INPUT
    /\ (EncoderFed /\ enc.solve_runs = 0) => enc_result = R_BAD_INPUT

\* The ids of the rows a decoder holds in its first n slots, in slot order.
HeldIds(c, n) == [k \in 1..n |-> c.peel_rows[k - 1].id]

\* The slots 0..n-1 of a decoder in the order of their row ids.
RECURSIVE SlotsById(_, _)
SlotsById(c, slots) ==
    IF slots = {} THEN << >>
    ELSE LET s == CHOOSE x \in slots : \A y \in slots : c.peel_rows[x].id <= c.peel_rows[y].id
         IN  << s >> \o SlotsById(c, slots \ {s})

\* A fresh decoder fed the rows that c holds in the given slots, in that order.
RECURSIVE FeedSlots(_, _, _, _)
FeedSlots(res, c, order, k) ==
    IF k > Len(order) THEN res
    ELSE FeedSlots(DecodeFeedOp(res.c, c.peel_rows[order[k]].id, c.input_blocks[order[k]], TRUE),
                   c, order, k + 1)

\* The decoder c fed again from scratch with its N rows in the order of
\* their ids.
FedInIdOrder(c) ==
    FeedSlots(InitializeDecoderOp(NewCodec, message_bytes, BlockBytes, g_p_seed, g_c_seed, TRUE),
              c, SlotsById(c, 0..(c.block_count - 1)), 1)

\* The decoder has just accepted its N-th row, and was fed nothing else.
JustSolved ==
    /\ feeds = dec.block_count
    /\ dec.used_count = dec.block_count
    /\ dec.path = "solve"
    /\ dec_result \in {R_WIN, R_MORE_BLOCKS}

\* C10: for any set of N rows, the result of the N-th DecodeFeed and, when
\* Ok, the output of ReconstructOutput are the same in whatever order the
\* rows are fed; here the order fed is compared with the order of the ids.
C10_OrderInvariant ==
    JustSolved =>
       LET sorted == FedInIdOrder(dec)
       IN  /\ sorted.r = dec_result
           /\ dec_result = R_WIN =>
                 ReconstructOutputOp(sorted.c).out = ReconstructOutputOp(dec).out

\* The last DecodeFeed resumed with a row that is linearly independent of
\* the pivots found so far, and the next block is not under way yet.
FedIndependentRow ==
    /\ packet = << >>
    /\ dec.path = "resume"
    /\ dec.independent
    /\ ~dec.undefined

\* Every row 0..RepeatId of the encoder's stream reaches the receiver again
\* and again.
EveryRowKeepsComing == \A id \in 0..RepeatId : []<>(packet # << >> /\ packet.id = id)

\* C5: if the caller keeps feeding rows of the encoder's stream, infinitely
\* often rows that are linearly independent of the pivots found so far,
\* DecodeFeed eventually returns Ok, also when the spare row slots are
\* exhausted and rows are being overwritten.
C5_EventualOk == (EveryRowKeepsComing /\ []<>FedIndependentRow) => <>DecodedOk

\* The ids of the rows in the slots the decoder has filled.
HeldIdSet(c) == {c.peel_rows[k].id : k \in 0..(c.used_count - 1)}

\* A DecodeFeed on the resume path of a row whose id the decoder holds
\* returns MoreBlocks and leaves the resume pivot where it was.
HeldRowNoPivot ==
    (/\ packet # << >>
     /\ packet' = << >>
     /\ dec.has_matrix
     /\ dec.used_count >= dec.block_count
     /\ packet.id \in HeldIdSet(dec)
     /\ ~dec'.undefined)
    => /\ dec_result' = R_MORE_BLOCKS
       /\ dec'.ge_resume_pivot = dec.ge_resume_pivot

\* Whether a decoder c fed the blocks ids of the encoder e, one DecodeFeed
\* each, gets Ok from one of them.
RECURSIVE FeedToOk(_, _, _), FeedToOkNext(_, _, _)
FeedToOk(e, c, ids) ==
    IF ids = << >> THEN FALSE
    ELSE FeedToOkNext(e, DecodeFeedOp(c, Head(ids), EncodeOp(e, Head(ids)), TRUE), Tail(ids))

FeedToOkNext(e, res, ids) ==
    IF res.c.undefined THEN FALSE
    ELSE IF res.r = R_WIN THEN TRUE
    ELSE FeedToOk(e, res.c, ids)

\* A decoder set up like dec that has not been fed.
FreshDecoder ==
    InitializeDecoderOp(NewCodec, message_bytes, BlockBytes, g_p_seed, g_c_seed, TRUE).c

\* When the rows the decoder has stored, each fed once, give Ok, the
\* decoder that also got their duplicates has had its Ok.
SameDistinctRows ==
    (/\ dec.has_workspace
     /\ ~dec.undefined
     /\ packet = << >>
     /\ FeedToOk(enc, FreshDecoder, dec.fed))
    => dec.won

\* C11: re-feeding an id the decoder holds adds nothing to rank: on the
\* resume path it returns MoreBlocks without advancing the resume pivot,
\* and the decoder that received duplicates has Ok as soon as the distinct
\* rows it was fed suffice for a decoder that received no duplicates.
C11_DuplicatesWasteful == [][HeldRowNoPivot]_vars /\ []SameDistinctRows

\* Both codecs have been set up, for the same T and M.
BothSetUp ==
    /\ enc.has_workspace
    /\ dec.has_workspace
    /\ enc_result = R_WIN
    /\ dec_result = R_WIN

\* C12: two codecs set up with the same (T, M) have the same p_seed and
\* c_seed and generate the same row shape for every id, whatever the
\* process did between the two setups.
C12_SameShapes ==
    BothSetUp =>
      /\ enc.p_seed = dec.p_seed
      /\ enc.c_seed = dec.c_seed
      /\ \A id \in 0..MaxId :
           GeneratePeelRow(id, enc.p_seed, enc.block_count, enc.added_count)
             = GeneratePeelRow(id, dec.p_seed, dec.block_count, dec.added_count)

\* The bytes of the output buffer past the end of the message are as the
\* caller left them.
TailUntouched ==
    \A j \in message_bytes..(dec.block_count * dec.block_bytes - 1) :
        output.data[j] = {Garbage(3, j)}

\* C13: ReconstructOutput writes only bytes [0, T) of the output buffer,
\* whether the final row is copied from a received block or regenerated
\* from the recovery blocks.
C13_WritesOnlyMessage == OutputWritten => TailUntouched

\* The bytes behind the end of the caller's message, in the final block.
PastMessage ==
    {Garbage(2, j) : j \in message_bytes..(enc.block_count * enc.block_bytes - 1)}

\* C14: on the encoder every step that uses the input block of the final
\* message row reads only its first T mod M bytes and takes the rest as
\* zero, whether the row was peeled or deferred and chosen as a GE pivot:
\* no byte behind the end of the message enters a recovery block.
C14_FinalBlockTailIgnored ==
    (EncoderFed /\ enc_result = R_WIN /\ ~enc.undefined) =>
      \A k \in DOMAIN enc.recovery_blocks :
        \A b \in DOMAIN enc.recovery_blocks[k] :
            enc.recovery_blocks[k][b] \cap PastMessage = {}

\* The decoder as GreedyPeeling leaves it when the block in flight is the
\* N-th row it stores, and the encoder as GreedyPeeling leaves it when it
\* is fed its message; ok: whether OpportunisticPeeling accepted the rows.
DecoderPeeled ==
    LET op == OpportunisticPeeling(dec, dec.used_count, packet.id)
    IN  [ok |-> op.ok, c |-> GreedyPeeling(op.c)]

EncoderPeeled ==
    LET fed == EncodeFeedRows(SetInput(enc, message_bytes), 0)
    IN  [ok |-> fed.ok, c |-> GreedyPeeling(fed.c)]

\* The block in flight is the N-th row of the decoder.
LastRowInFlight ==
    /\ dec.has_workspace
    /\ ~dec.undefined
    /\ packet # << >>
    /\ dec.used_count = dec.block_count - 1

\* The encoder is set up and has not been fed.
EncoderAwaitsMessage == enc.has_workspace /\ enc_result = R_WIN /\ ~EncoderFed

\* Every one of the N rows is on exactly one of the two lists, once, and no
\* column is Todo.
PeelingOutcome(c) ==
    LET peeled == RowList(c, c.peel_head_rows)
        deferred == RowList(c, c.defer_head_rows)
        both == peeled.rows \o deferred.rows
    IN  /\ peeled.ok
        /\ deferred.ok
        /\ Len(both) = c.block_count
        /\ {both[k] : k \in 1..Len(both)} = 0..(c.block_count - 1)
        /\ \A column_i \in 0..(c.block_count - 1) :
               c.peel_cols[column_i].mark \in {MARK_PEEL, MARK_DEFER}

\* C15: after N rows have been opportunistically peeled and GreedyPeeling
\* has returned, every row is on exactly one of the peeled list and the
\* deferred-rows list, once, and every column is Peeled or Deferred.
C15_PeelingOutcome ==
    /\ (LastRowInFlight /\ DecoderPeeled.ok) => PeelingOutcome(DecoderPeeled.c)
    /\ (EncoderAwaitsMessage /\ EncoderPeeled.ok) => PeelingOutcome(EncoderPeeled.c)

\* GreedyPeeling had columns to defer, and left rows on both lists.
C15_Witness ==
    /\ LastRowInFlight
    /\ DecoderPeeled.ok
    /\ DecoderPeeled.c.defer_count > 0
    /\ DecoderPeeled.c.peel_head_rows # LIST_TERM
    /\ DecoderPeeled.c.defer_head_rows # LIST_TERM

\* The decoder is still collecting its first N rows.
FirstRowsPhase ==
    /\ dec.has_workspace
    /\ ~dec.undefined
    /\ dec.used_count < dec.block_count

\* The current shape of the row in slot row_i covers column_i.
ShapeCovers(c, row_i, column_i) ==
    /\ c.peel_rows[row_i].peel_weight # UNINIT
    /\ \E k \in 1..c.peel_rows[row_i].peel_weight :
           PeelColumnsOf(c, c.peel_rows[row_i])[k] = column_i

\* I1 for one codec: a Todo column's reference list names no slot twice,
\* names every stored row that covers the column, and names only slots
\* whose current shape covers it (the slot the next row goes to holds the
\* shape of the last rejected row).
ReferenceLists(c) ==
    \A column_i \in 0..(c.block_count - 1) :
        c.peel_cols[column_i].mark = MARK_TODO =>
            LET refs == c.peel_col_refs[column_i]
            IN  /\ \A j, k \in 1..Len(refs) : refs[j] = refs[k] => j = k
                /\ \A k \in 1..Len(refs) : ShapeCovers(c, refs[k], column_i)
                /\ \A row_i \in 0..(c.used_count - 1) :
                       ShapeCovers(c, row_i, column_i) =>
                           \E k \in 1..Len(refs) : refs[k] = row_i

\* C16: I1: while the first N rows are collected, rejected rows whose slot
\* is reused included, the reference list of every Todo column holds
\* exactly the rows whose current shape covers it, each once.
C16_ReferenceLists == FirstRowsPhase => ReferenceLists(dec)

\* I2 for the first row_count slots of one codec.
UnmarkedCounts(c, row_count) ==
    \A row_i \in 0..(row_count - 1) :
        c.peel_rows[row_i].unmarked_count = TodoCount(c, row_i)

RowResolved(c, row_i) ==
    \/ \E k \in 1..Len(RowList(c, c.peel_head_rows).rows) :
           RowList(c, c.peel_head_rows).rows[k] = row_i
    \/ \E k \in 1..Len(RowList(c, c.defer_head_rows).rows) :
           RowList(c, c.defer_head_rows).rows[k] = row_i

\* unmarked_count of a row on neither list is the number of Todo columns
\* it covers; a row on a list covers no Todo column, and its field is 0 or
\* has been decremented below 0 by the avalanches that were still pending
\* when it was resolved.
UnmarkedCountsOfUnresolved(c, row_count) ==
    \A row_i \in 0..(row_count - 1) :
        IF RowResolved(c, row_i)
          THEN /\ TodoCount(c, row_i) = 0
               /\ \/ c.peel_rows[row_i].unmarked_count = 0
                  \/ c.peel_rows[row_i].unmarked_count >=
                         65536 - c.peel_rows[row_i].peel_weight
          ELSE c.peel_rows[row_i].unmarked_count = TodoCount(c, row_i)

\* How often slot row_i is on the reference list of column_i.
RefCount(c, row_i, column_i) ==
    Cardinality({k \in 1..Len(c.peel_col_refs[column_i]) :
                     c.peel_col_refs[column_i][k] = row_i})

\* No reference list holds a reference left behind by a rejected row: slot
\* row_i is on the list of column_i once if its row covers the column, and
\* not at all otherwise.
ExactReferences(c, row_count) ==
    \A column_i \in 0..(c.block_count - 1) :
        /\ \A k \in 1..Len(c.peel_col_refs[column_i]) :
               c.peel_col_refs[column_i][k] < row_count
        /\ \A row_i \in 0..(row_count - 1) :
               RefCount(c, row_i, column_i) =
                   IF ShapeCovers(c, row_i, column_i) THEN 1 ELSE 0

peel_column(c, row_i) == c.peel_rows[row_i].unmarked[0]
peel_row(c, column_i) == c.peel_cols[column_i].w2_refs

\* The codec once peeling has finished and the deferred rows are marked.
PeelingFinished(c) ==
    SetMixingColumnsForDeferredRows(SetDeferredColumns(AllocateMatrix(c, TRUE)))

\* I3 for one codec.
PeelColumns(c) ==
    \A column_i \in 0..(c.block_count - 1) :
        {row_i \in 0..(c.block_count - 1) : peel_column(c, row_i) = column_i} =
            IF c.peel_cols[column_i].mark = MARK_PEEL
              THEN {peel_row(c, column_i)} ELSE {}

\* The last call ran SolveMatrix with its matrices allocated, and
\* ReconstructOutput, which takes the column marks for its own use, has
\* not run since.
DecoderSolved ==
    /\ dec.path = "solve"
    /\ ~dec.undefined
    /\ dec_result \in {R_WIN, R_MORE_BLOCKS}
    /\ ~OutputWritten

\* C18: I3: after peeling, each Peeled column is the peel_column of
\* exactly one row, the one recorded as its peel_row, and no row has a
\* Deferred or Todo column as its peel_column.
C18_PeelColumns ==
    /\ (LastRowInFlight /\ DecoderPeeled.ok) =>
           PeelColumns(PeelingFinished(DecoderPeeled.c))
    /\ (EncoderAwaitsMessage /\ EncoderPeeled.ok) =>
           PeelColumns(PeelingFinished(EncoderPeeled.c))
    /\ DecoderSolved => PeelColumns(dec)

\* A decoder has finished peeling with both peeled and deferred columns.
C18_Witness ==
    /\ DecoderSolved
    /\ \E column_i \in 0..(dec.block_count - 1) :
           dec.peel_cols[column_i].mark = MARK_PEEL
    /\ \E column_i \in 0..(dec.block_count - 1) :
           dec.peel_cols[column_i].mark = MARK_DEFER
    /\ dec.defer_head_rows # LIST_TERM

\* I4 for one codec: every other Peeled column a peeled row covers is
\* solved by a row before it on the peeled list.
PeeledOrder(c) ==
    LET rows == RowList(c, c.peel_head_rows).rows
    IN  \A k \in 1..Len(rows) :
            \A n \in 1..c.peel_rows[rows[k]].peel_weight :
                LET column_i == PeelColumnsOf(c, c.peel_rows[rows[k]])[n]
                IN  (column_i # peel_column(c, rows[k])
                        /\ c.peel_cols[column_i].mark = MARK_PEEL) =>
                    \E j \in 1..(k - 1) : peel_column(c, rows[j]) = column_i

\* C19: I4: the peeled list, walked head to tail, is a topological order:
\* every peeled row comes after the rows that solve the other Peeled
\* columns it covers.
C19_PeeledOrder ==
    /\ FirstRowsPhase => PeeledOrder(dec)
    /\ (LastRowInFlight /\ DecoderPeeled.ok) =>
           PeeledOrder(PeelingFinished(DecoderPeeled.c))
    /\ (EncoderAwaitsMessage /\ EncoderPeeled.ok) =>
           PeeledOrder(PeelingFinished(EncoderPeeled.c))
    /\ DecoderSolved => PeeledOrder(dec)

\* What SolveMatrix returns for the decoder when the block in flight is its
\* N-th row, and for the encoder when it is fed its message: r is R_WIN
\* when Triangle succeeded, and c is the codec as Triangle left it.
DecoderTriangle ==
    LET op == OpportunisticPeeling(dec, dec.used_count, packet.id)
    IN  SolveMatrix([op.c EXCEPT !.input_blocks[dec.used_count] = packet.block,
                                 !.used_count = @ + 1], TRUE)

EncoderTriangle ==
    SolveMatrix(EncodeFeedRows(SetInput(enc, message_bytes), 0).c, TRUE)

\* The block in flight goes to ResumeSolveMatrix.
ResumeInFlight ==
    /\ dec.has_workspace
    /\ ~dec.undefined
    /\ ~dec.won
    /\ packet # << >>
    /\ dec.used_count >= dec.block_count

DecoderResume == ResumeSolveMatrix(dec, packet.id, packet.block)

\* Row pivots[p] has bit p set, for every pivot column p.
PivotBitsSet(c) ==
    \A p \in 0..(c.defer_count + c.added_count - 1) : p \in c.ge_matrix[c.ge_pivots[p]]

\* I6 for one codec.
UpperTriangular(c) ==
    /\ PivotBitsSet(c)
    /\ \A p \in 0..(c.defer_count + c.added_count - 1) :
           \A j \in (p + 1)..(c.defer_count + c.added_count - 1) :
               p \notin c.ge_matrix[c.ge_pivots[j]]

ResumeInFreshSlot ==
    /\ ResumeInFlight
    /\ dec.used_count < dec.block_count + dec.extra_count

BeforePatch(c) ==
    MultiplyDenseRows(CopyDeferredRows(PeelDiagonal(PeelingFinished(c))))

AfterPatch(c) ==
    [BeforePatch(c) EXCEPT !.ge_matrix =
        AddInvertibleGF2Matrix(@, BeforePatch(c).defer_count, BeforePatch(c).added_count)]

\* The square of the check rows [0, H) and the mix columns.
CheckSquare(c) ==
    [k \in 1..c.added_count |->
        {b \in c.ge_matrix[k - 1] :
             b >= c.defer_count /\ b < c.defer_count + c.added_count}]

CheckSquareRank(c) ==
    RankFrom(CheckSquare(c), c.defer_count, c.defer_count + c.added_count - 1)

\* C21: after the invertibility patch is added at the end of compression
\* the square of the check rows and the mix columns has full rank,
\* whatever MultiplyDenseRows had put in it.
C21_FullRankSquare ==
    /\ (LastRowInFlight /\ DecoderPeeled.ok /\ ~BeforePatch(DecoderPeeled.c).undefined) =>
           CheckSquareRank(AfterPatch(DecoderPeeled.c)) = dec.added_count
    /\ (EncoderAwaitsMessage /\ EncoderPeeled.ok) =>
           CheckSquareRank(AfterPatch(EncoderPeeled.c)) = enc.added_count

\* The block in flight finds no spare slot: ResumeSolveMatrix reuses a row.
ReuseInFlight ==
    /\ ResumeInFlight
    /\ ResumeStateDefined(dec)
    /\ dec.used_count >= dec.block_count + dec.extra_count

\* The GE row the reuse loop settles on.
ReusedRow == FindReuseRow(dec, dec.ge_resume_pivot, UNINIT)

\* C22: the GE row ResumeSolveMatrix reuses is never a check row: its
\* index is at least H and it sits at a pivot position at or after the
\* resume pivot.
C22_CheckRowsKept ==
    ReuseInFlight =>
        /\ ReusedRow >= dec.added_count
        /\ \E pivot_i \in dec.ge_resume_pivot..(dec.ge_rows - 1) :
               dec.ge_pivots[pivot_i] = ReusedRow

BeforeMultiply(c) == CopyDeferredRows(PeelDiagonal(PeelingFinished(c)))

\* The mark a Peeled column leaves where it is XORed in: a GE bit past the
\* matrix, and a byte symbol.
ColumnTag(column_i) == 1000 + column_i

\* The codec with empty check rows and, for the image of each Peeled
\* column, the tag of that column alone.
TaggedImages(c) ==
    [c EXCEPT !.ge_matrix = [r \in DOMAIN @ |-> {}],
              !.ge_compress_matrix =
                  [r \in DOMAIN @ |-> {ColumnTag(peel_column(c, r))}]]

\* The codec with, for the recovery block of each Peeled column, the tag
\* of that column alone, and zero blocks elsewhere.
TaggedBlocks(c) ==
    [c EXCEPT !.recovery_blocks =
        [i \in DOMAIN @ |->
            IF i < c.block_count /\ c.peel_cols[i].mark = MARK_PEEL
              THEN [j \in 0..(c.block_bytes - 1) |-> {ColumnTag(i)}]
              ELSE ZeroBlock(c.block_bytes)]]

\* Whether MultiplyDenseRows XORs the image of column_i into GE row k an
\* odd number of times.
ImageParity(c, k, column_i) ==
    ColumnTag(column_i) \in MultiplyDenseRows(TaggedImages(c)).ge_matrix[k]

\* Whether AddCheckValues XORs the recovery block of column_i into the
\* block of check row k an odd number of times.
ValueParity(c, k, column_i) ==
    ColumnTag(column_i) \in AddCheckValues(TaggedBlocks(c)).recovery_blocks[c.ge_row_map[k]][0]

\* AddCheckValues on the codec values, after a Triangle that succeeded on
\* the codec matrix, follows MultiplyDenseRows.
ReplaysDenseRows(matrix, values) ==
    \A k \in 0..(values.added_count - 1) :
        values.ge_row_map[k] # LIST_TERM =>
            \A column_i \in 0..(values.block_count - 1) :
                values.peel_cols[column_i].mark = MARK_PEEL =>
                    (ValueParity(values, k, column_i) <=> ImageParity(matrix, k, column_i))

\* C24: AddCheckValues replays MultiplyDenseRows: for every check row k
\* used as a pivot and every Peeled column, the recovery block of the column
\* is XORed into the block of check row k an odd number of times exactly
\* when MultiplyDenseRows XORed the image of the column into GE row k an odd
\* number of times.
C24_ReplaysDenseRows ==
    /\ (LastRowInFlight /\ DecoderTriangle.r = R_WIN) =>
           ReplaysDenseRows(BeforeMultiply(DecoderPeeled.c),
                            InitializeColumnValues(DecoderTriangle.c))
    /\ (EncoderAwaitsMessage /\ EncoderTriangle.r = R_WIN) =>
           ReplaysDenseRows(BeforeMultiply(EncoderPeeled.c),
                            InitializeColumnValues(EncoderTriangle.c))

\* The solution columns of a codec: the recovery blocks of the pivots.
SolutionColumns(c) ==
    [p \in 0..(c.defer_count + c.added_count - 1) |-> c.recovery_blocks[c.ge_col_map[p]]]

\* Both builds have back-substituted the same codec.
BothBuildsDone == dec_result = R_WIN /\ enc_result = R_WIN

\* C25: the windowed back-substitution leaves in every solution column what
\* the plain back-substitution of the same upper triangle leaves there, for
\* the widths 4 to 7, across width changes and for windows that straddle a
\* 64-bit word boundary.
C25_WindowedIsPlain ==
    BothBuildsDone => SolutionColumns(dec) = SolutionColumns(enc)

\* Both builds are done on 140 pivots with the table in Peeled columns:
\* windows of 7, 6, 5 and 4 bits, two of them across a word boundary.
C25_Witness ==
    /\ BothBuildsDone
    /\ dec.ge_rows = 140
    /\ \E i \in 0..(dec.block_count - 1) : dec.recovery_blocks[i] # enc.recovery_blocks[i]

\* ---------------------------------------------------------------- scratch slots
\* The codec with the recovery block of every Peeled column replaced by
\* the tag of the column: what is left in a slot that served as scratch.
Scratched(c) ==
    [c EXCEPT !.recovery_blocks =
        [i \in DOMAIN @ |->
            IF i < c.block_count /\ c.peel_cols[i].mark = MARK_PEEL
              THEN [j \in 0..(c.block_bytes - 1) |-> {ColumnTag(i)}]
              ELSE @[i]]]

\* The codec as GenerateRecoveryBlocks hands it to
\* BackSubstituteAboveDiagonal, and to Substitute.
BeforeBackSubstitute(c) == AddSubdiagonalValues(AddCheckValues(InitializeColumnValues(c)))

BeforeSubstitute(c) == BackSubstituteAboveDiagonal(BeforeBackSubstitute(c))

\* For a codec on which Triangle succeeded: no slot the window table may
\* take is the solution column of a pivot, and what Substitute leaves does
\* not depend on what the slots of the Peeled columns held when it started.
ScratchOrdering(c) ==
    /\ \A p \in 0..(c.defer_count + c.added_count - 1) :
           \A jj \in 1..Len(PeeledSlots(c)) : PeeledSlots(c)[jj] # c.ge_col_map[p]
    /\ ~BeforeSubstitute(c).undefined =>
           Substitute(Scratched(BeforeSubstitute(c))).recovery_blocks
               = Substitute(BeforeSubstitute(c)).recovery_blocks

MaxModulus == 9

IterInputs ==
    {[m |-> m, a |-> a, x0 |-> x0, w |-> w] :
        m \in 2..MaxModulus, a \in 1..(MaxModulus - 1),
        x0 \in 0..(MaxModulus - 1), w \in 1..(MaxModulus - 1)}

IterInit ==
    /\ \E in \in IterInputs :
          /\ in.a <= in.m - 1 /\ in.x0 < in.m /\ in.w <= in.m - 1
          /\ dec = [NewCodec EXCEPT
                       !.block_count = in.m,
                       !.block_next_prime = NextPrime16(in.m),
                       !.peel_rows = [i \in 0..0 |->
                                         [FreshPeelRow EXCEPT
                                             !.peel_weight = in.w,
                                             !.peel_a = in.a,
                                             !.peel_x0 = in.x0]]]
          /\ packet = << in.x0 >>
    /\ enc = NewCodec
    /\ g_p_seed = 0
    /\ g_c_seed = 0
    /\ message_bytes = 0
    /\ enc_result = R_NONE
    /\ dec_result = R_NONE
    /\ next_id = 0
    /\ held = << >>
    /\ output = [data |-> << >>, feeds |-> 0]
    /\ feeds = 0

\* One round of the loop over a row's columns: the next column is visited.
IterateRow ==
    /\ Len(packet) < dec.peel_rows[0].peel_weight
    /\ packet' = Append(packet,
                        IterateNextColumn(packet[Len(packet)], dec.block_count,
                                          dec.block_next_prime, dec.peel_rows[0].peel_a))
    /\ UNCHANGED << g_p_seed, g_c_seed, message_bytes, enc, dec, enc_result,
                    dec_result, next_id, held, output, feeds >>

IterNext == IterateRow

IterSpec == IterInit /\ [][IterNext]_vars

\* C27: the start column and its iterates are all in [0, m), and the first
\* w of them are pairwise distinct for every weight w <= m-1.
C27_DistinctColumns ==
    /\ \A i \in 1..Len(packet) : packet[i] \in 0..(dec.block_count - 1)
    /\ \A i, j \in 1..Len(packet) : i # j => packet[i] # packet[j]

\* ---------------------------------------------------------------- the shuffle alone
\* ShuffleDeck16 on its own: output holds the caller's deck, the size, the
\* loop counter and the generator; the deck is uninitialised at the call.
\* The sizes take every exit of both switches: 1..10 and 253..256 on the
\* 8-bit path, 257..260 on the 16-bit path.
ShuffleSeedMax == 11

ShuffleCounts == (1..10) \cup (253..260)

ShuffleInit ==
    /\ \E count \in ShuffleCounts, seed \in 0..ShuffleSeedMax :
          output = [deck |-> [k \in 0..(count - 1) |-> UNINIT], count |-> count,
                    ii |-> 0, prng |-> CatsChoiceInitialize1(seed), done |-> FALSE]
    /\ enc = NewCodec
    /\ dec = NewCodec
    /\ g_p_seed = 0
    /\ g_c_seed = 0
    /\ message_bytes = 0
    /\ enc_result = R_NONE
    /\ dec_result = R_NONE
    /\ next_id = 0
    /\ packet = << >>
    /\ held = << >>
    /\ feeds = 0

\* deck[0] = 0 and the loop's ii = 1.
ShuffleBegin ==
    /\ output.ii = 0
    /\ output' = [output EXCEPT !.deck[0] = 0, !.ii = 1]
    /\ UNCHANGED << g_p_seed, g_c_seed, message_bytes, enc, dec, enc_result,
                    dec_result, next_id, packet, held, feeds >>

\* One round of for (;;): a word is drawn and the switch is taken.
ShuffleRound ==
    /\ output.ii >= 1
    /\ ~output.done
    /\ output' = [ShuffleDeckRound(output.deck, output.ii, output.count,
                                   CatsChoiceValue(output.prng))
                     EXCEPT !.ii = @] @@
                 [count |-> output.count, prng |-> CatsChoiceAdvance(output.prng)]
    /\ UNCHANGED << g_p_seed, g_c_seed, message_bytes, enc, dec, enc_result,
                    dec_result, next_id, packet, held, feeds >>

ShuffleNext == ShuffleBegin \/ ShuffleRound

ShuffleSpec == ShuffleInit /\ [][ShuffleNext]_vars /\ WF_vars(ShuffleNext)

\* C28: ShuffleDeck16 returns, and when it has returned deck[0..count) is a
\* permutation of [0, count): every value below count is in the deck.
C28_ShufflePermutes ==
    /\ <>(output.done)
    /\ [](output.done =>
             {output.deck[k] : k \in 0..(output.count - 1)} = 0..(output.count - 1))

\* A 16-bit shuffle whose last round took the one-entry exit, and a deck
\* that is not in order.
C28_Witness ==
    /\ output.done
    /\ output.count = 258
    /\ \E k \in 0..(output.count - 1) : output.deck[k] # k

\* Triangle has run on the codec and its last call returned Ok or asked for
\* more rows.
Triangulated(c, result) ==
    /\ c.has_matrix
    /\ ~c.undefined
    /\ c.used_count >= c.block_count
    /\ result \in {R_WIN, R_MORE_BLOCKS}

\* pivots[0 .. ge_rows) holds every GE row index exactly once.
PivotsPermutation(c) ==
    /\ \A q \in 0..(c.ge_rows - 1) : c.ge_pivots[q] \in 0..(c.ge_rows - 1)
    /\ \A q, r \in 0..(c.ge_rows - 1) : q # r => c.ge_pivots[q] # c.ge_pivots[r]

\* C29: after Triangle and after any sequence of ResumeSolveMatrix calls
\* (rows appended while spare slots remain and rows reused afterwards, useful
\* or not), pivots[0 .. ge_rows) is a permutation of the GE row indices.
C29_PivotsPermutation ==
    /\ Triangulated(dec, dec_result) => PivotsPermutation(dec)
    /\ Triangulated(enc, enc_result) => PivotsPermutation(enc)

\* C30: once a DecodeFeed has returned Ok, every later DecodeFeed returns
\* Ok as well and leaves the recovery blocks as they were.
C30_OkIsFinal ==
    [][(feeds' = feeds + 1 /\ dec.won) =>
          /\ dec_result' = R_WIN
          /\ dec'.recovery_blocks = dec.recovery_blocks]_vars

====
